---------------------------- MODULE Spec2Model ----------------------------
(***************************************************************************)
(* Model of the KLVR support tool: the live battery-detection monitor      *)
(* (src/tools/battery-monitor.py), the log extractors and the calibration  *)
(* scripts (src/delta_analysis.py, src/dual_range_analysis.py,             *)
(* src/proper_dual_range_analysis.py, src/detailed_delta_analysis.py).     *)
(*                                                                         *)
(* Python strings that the code searches with `in` or `endswith` are       *)
(* modelled as tuples of one-character strings, so that a substring test   *)
(* is computed and not assumed.  Strings that are only compared for        *)
(* equality (the test type) are TLA+ strings.                              *)
(***************************************************************************)
EXTENDS Integers, Sequences, FiniteSets, TLC

VARIABLES
    \* ---- monitor (battery-monitor.py main) ----
    test_type,       \* 'aa' | 'aaa' | 'both'
    pc,              \* position of main: open, fetch, emit, sleep, stopped, crashed
    reading_num,     \* reading counter
    last_analysis,   \* what main reads of the preceding cycle's analysis
    data,            \* value returned by get_charger_status in this cycle
    analysis,        \* analyze_detection(data, test_type) of this cycle
    out,             \* what the rest of the loop body emits in this cycle
    console,         \* lines printed in this cycle, in order
    log_file,        \* lines written to the log in this cycle
    disk,            \* lines of this cycle that are flushed to disk
    log_open,        \* the log file handle is open
    summaries,       \* number of summary lines written to the log so far
    report,          \* what the KeyboardInterrupt handler printed
    argv,            \* sys.argv[2] as given on the command line, or NoArg
    exit,            \* whether sys.exit was called, and with which status
    logs_dir,        \* os.makedirs("logs") has run
    misdetections_seen, \* history: misdetections of the completed cycles, summed
    \* ---- extractors ----
    extractor,       \* which script's extractor runs: delta | dual | proper
    epc,             \* position of the extractor
    listing,         \* what os.listdir returns, in its order
    log_files,       \* the '.log' files, in listing order
    aa_files,        \* proper_dual_range_analysis: files taken as AA tests
    aaa_files,       \* proper_dual_range_analysis: files taken as AAA tests
    cursor,          \* number of files of the current loop already processed
    \* ---- the four sample sets (extractor output, calibrator input) ----
    aa_correct,
    aa_misdetected,
    aaa_correct,
    aaa_failed,
    \* ---- calibration ----
    cpc,             \* idle | ready | done
    result           \* outcome of the calibration script that ran

mvars == <<test_type, pc, reading_num, last_analysis, data, analysis, out,
           console, log_file, disk, log_open, summaries, report,
           argv, exit, logs_dir, misdetections_seen>>
evars == <<extractor, epc, listing, log_files, aa_files, aaa_files, cursor>>
svars == <<aa_correct, aa_misdetected, aaa_correct, aaa_failed>>
cvars == <<cpc, result>>
vars == <<mvars, evars, svars, cvars>>

---------------------------------------------------------------------------
(* Bounds *)

NumSlots == 2
MaxReadings == 3
MaxFiles == 2
MaxSamples == 2

---------------------------------------------------------------------------
(* Python string helpers *)

\* Python `sub in s` for strings.
Contains(s, sub) ==
    \E i \in 0..(Len(s) - Len(sub)) : \A j \in 1..Len(sub) : s[i + j] = sub[j]

\* Python `s.endswith(suffix)`.
EndsWith(s, suffix) ==
    /\ Len(s) >= Len(suffix)
    /\ \A j \in 1..Len(suffix) : s[Len(s) - Len(suffix) + j] = suffix[j]

\* range(n) as the 1-based sequence <<1, ..., n>>; a list comprehension or
\* a for loop with an if over it is SelectSeq of it.
Range(n) == [i \in 1..n |-> i]

s_AA == <<"A", "A">>
s_AAA == <<"A", "A", "A">>
KLVR_AA == <<"K", "L", "V", "R", "-", "A", "A">>
KLVR_AAA == <<"K", "L", "V", "R", "-", "A", "A", "A">>
s_Unknown == <<"N", "o", "n", "e">>

---------------------------------------------------------------------------
(* The status source: what one GET of /api/v2/charger/status can give *)

\* One element of the 'batteries' array.  has* say whether the key is
\* present; detectedIsStr / debugIsInt say whether the value has the type
\* the monitor expects.
Slot(hasState, state, hasDet, detIsStr, det, hasDebug, debugIsInt, on, off, delta) ==
    [hasSlotState |-> hasState, slotState |-> state,
     hasDetected |-> hasDet, detectedIsStr |-> detIsStr, batteryDetected |-> det,
     hasDebug |-> hasDebug, debugIsInt |-> debugIsInt,
     voltageAAA_mv |-> on, voltageAA_mv |-> off, voltageDelta_mv |-> delta]

EmptySlot == Slot(TRUE, "empty", TRUE, TRUE, <<>>, FALSE, TRUE, 0, 0, 0)

Occupied(det, hasDebug, on, off) ==
    Slot(TRUE, "occupied", TRUE, TRUE, det, hasDebug, TRUE, on, off, on - off)

SlotValues ==
    { EmptySlot,
      Occupied(KLVR_AA, TRUE, 1400, 1395),
      Occupied(KLVR_AA, FALSE, 0, 0),
      Occupied(KLVR_AAA, TRUE, 1500, 1200),
      Occupied(KLVR_AAA, FALSE, 0, 0),
      Occupied(s_Unknown, TRUE, 900, 910),
      \* shape mismatches
      Slot(FALSE, "", TRUE, TRUE, KLVR_AA, FALSE, TRUE, 0, 0, 0),           \* no 'slotState'
      Slot(TRUE, "occupied", FALSE, TRUE, <<>>, FALSE, TRUE, 0, 0, 0),      \* no 'batteryDetected'
      Slot(TRUE, "occupied", TRUE, FALSE, <<>>, FALSE, TRUE, 0, 0, 0),      \* label is not a string
      Slot(TRUE, "occupied", TRUE, TRUE, KLVR_AA, TRUE, FALSE, 0, 0, 0) }   \* debug value is not an int

\* A decoded JSON value.  top: null, empty (any falsy value: {}, [], 0, ""),
\* number (non-zero), list (non-empty, no element 'batteries'), object.
Json(top, hasBatteries, batteries) ==
    [top |-> top, hasBatteries |-> hasBatteries, batteries |-> batteries]

None == Json("null", FALSE, <<>>)

\* `data` before the first fetch: the name is not bound yet.
Unbound == Json("unbound", FALSE, <<>>)

JsonValues ==
    { None, Json("empty", FALSE, <<>>), Json("number", FALSE, <<>>),
      Json("list", FALSE, <<>>), Json("object", FALSE, <<>>) }
    \cup { Json("object", TRUE, bs) : bs \in [1..NumSlots -> SlotValues] }

\* What urlopen + read + decode + json.loads can do.
Responses ==
    { [kind |-> k, value |-> None] : k \in {"timeout", "urlerror", "badjson"} }
    \cup { [kind |-> "json", value |-> v] : v \in JsonValues }

\* get_charger_status: any Exception gives None.
get_charger_status(resp) ==
    IF resp.kind = "json" THEN resp.value ELSE None

---------------------------------------------------------------------------
(* analyze_detection *)

\* The value of analyze_detection: status "none" is Python's None, "raised"
\* is an exception leaving the function, "ok" is the dict it returns.
Analysis(status, total, aa, aaa, debugs, mis, correct, tt) ==
    [status |-> status, total |-> total, aa_count |-> aa, aaa_count |-> aaa,
     all_debug_info |-> debugs, misdetections |-> mis,
     correct_detections |-> correct, test_type |-> tt]

NoAnalysis == Analysis("none", 0, 0, 0, <<>>, <<>>, <<>>, "")
RaisedAnalysis == Analysis("raised", 0, 0, 0, <<>>, <<>>, <<>>, "")

\* debug_entry of slot i (1-based here, enumerate's index is i - 1).
debug_entry(i, battery) ==
    [slot |-> i - 1, detected_type |-> battery.batteryDetected,
     isInt |-> battery.debugIsInt,
     voltageAAA_mv |-> battery.voltageAAA_mv,
     voltageAA_mv |-> battery.voltageAA_mv,
     voltageDelta_mv |-> battery.voltageDelta_mv]

\* IsMisdetection with the 'aaa' branch written as the mirror image of the
\* 'aa' branch (flag what is detected as AA).
IsMisdetection_mirrored(tt, detected_type) ==
    CASE tt = "aa" -> Contains(detected_type, s_AAA)
      [] tt = "aaa" -> Contains(detected_type, s_AA) /\ ~Contains(detected_type, s_AAA)
      [] OTHER -> FALSE

\* IsMisdetection with `else:` in place of `elif test_type == 'aaa':`.
IsMisdetection_else(tt, detected_type) ==
    CASE tt = "aa" -> Contains(detected_type, s_AAA)
      [] OTHER -> ~Contains(detected_type, s_AAA)

\* The test-type branches of the slot loop: is the entry appended to
\* misdetections / to correct_detections.
IsMisdetection(tt, detected_type) ==
    CASE tt = "aa" -> Contains(detected_type, s_AAA)
      [] tt = "aaa" -> ~Contains(detected_type, s_AAA)
      [] OTHER -> FALSE

IsCorrectDetection(tt, detected_type) ==
    CASE tt = "aa" -> /\ ~Contains(detected_type, s_AAA)
                      /\ Contains(detected_type, s_AA)
                      /\ ~Contains(detected_type, s_AAA)
      [] tt = "aaa" -> Contains(detected_type, s_AAA)
      [] OTHER -> FALSE

\* NoBatteries without the `not data` test: `'batteries' not in None` is a
\* TypeError, and a falsy container simply has no such key.
NoBatteries_unguarded(d) ==
    IF d.top = "null" THEN "raise"
    ELSE IF d.top = "empty" THEN "yes"
    ELSE IF d.top = "number" THEN "raise"
    ELSE IF d.top = "list" THEN "yes"
    ELSE IF d.hasBatteries THEN "no" ELSE "yes"

\* `not data or 'batteries' not in data`: "yes", "no", or "raise" (the `in`
\* test on a number is a TypeError).
NoBatteries(d) ==
    IF d.top \in {"null", "empty"} THEN "yes"
    ELSE IF d.top = "number" THEN "raise"
    ELSE IF d.top = "list" THEN "yes"
    ELSE IF d.hasBatteries THEN "no" ELSE "yes"

analyze_detection(d, tt) ==
    IF NoBatteries(d) = "yes" THEN NoAnalysis
    ELSE IF NoBatteries(d) = "raise" THEN RaisedAnalysis
    ELSE
      LET bs == d.batteries
          n == Len(bs)
      IN
        \* b['slotState'] is read for every element: KeyError when absent
        IF \E i \in 1..n : ~bs[i].hasSlotState THEN RaisedAnalysis
        ELSE
          LET IsActive(i) == bs[i].slotState # "empty"
              active == SelectSeq(Range(n), IsActive)
              Det(i) == bs[i].batteryDetected
          IN
            \* 'AA' in b['batteryDetected'] for every active element:
            \* KeyError when absent, TypeError when not a string
            IF \E i \in 1..n : IsActive(i) /\ (~bs[i].hasDetected \/ ~bs[i].detectedIsStr)
            THEN RaisedAnalysis
            ELSE
              LET IsAA(i) == IsActive(i) /\ Contains(Det(i), s_AA) /\ ~Contains(Det(i), s_AAA)
                  IsAAA(i) == IsActive(i) /\ Contains(Det(i), s_AAA)
                  WithDebug(i) == IsActive(i) /\ bs[i].hasDebug
                  Mis(i) == WithDebug(i) /\ IsMisdetection(tt, Det(i))
                  Cor(i) == WithDebug(i) /\ IsCorrectDetection(tt, Det(i))
                  Entries(idx) == [k \in 1..Len(idx) |-> debug_entry(idx[k], bs[idx[k]])]
              IN Analysis("ok", Len(active),
                          Len(SelectSeq(Range(n), IsAA)), Len(SelectSeq(Range(n), IsAAA)),
                          Entries(SelectSeq(Range(n), WithDebug)),
                          Entries(SelectSeq(Range(n), Mis)),
                          Entries(SelectSeq(Range(n), Cor)), tt)

\* Variant of the truthiness in which None passes too.
Truthy_always(a) == TRUE

\* Python truthiness of an analysis: None is falsy, the dict is truthy.
Truthy(a) == a.status = "ok"

\* last_analysis = analysis.  Of last_analysis main reads its truthiness and
\* its 'total' only, and the variable keeps just these.
LastOf(a) == [status |-> a.status, total |-> a.total]

NoLast == LastOf(NoAnalysis)

---------------------------------------------------------------------------
(* format_detection_line and the lines of one cycle *)

SummaryLine(n, tag, total, first, second, status) ==
    [kind |-> "summary", reading_num |-> n, tag |-> tag, total |-> total,
     first |-> first, second |-> second, status |-> status]

format_detection_line(n, a) ==
    IF ~Truthy(a) THEN SummaryLine(n, "Connection failed", 0, 0, 0, "")
    ELSE
      LET m == Len(a.misdetections)
          c == Len(a.correct_detections)
      IN CASE a.test_type = "aa" ->
                SummaryLine(n, "AA TEST", a.total, c, m,
                            IF m > 0 THEN "MISDETECTION!" ELSE "All correct")
           [] a.test_type = "aaa" ->
                SummaryLine(n, "AAA TEST", a.total, c, m,
                            IF m > 0 THEN "DETECTION FAILED!" ELSE "All detected")
           [] OTHER ->
                SummaryLine(n, "BOTH", a.total, a.aa_count, a.aaa_count, "")

\* The per-slot voltage line.
voltage_line(tt, debug) ==
    [kind |-> "voltage",
     indicator |-> CASE tt = "aa" ->
                          IF Contains(debug.detected_type, s_AAA) THEN "alarm" ELSE "ok"
                     [] tt = "aaa" ->
                          IF Contains(debug.detected_type, s_AAA) THEN "ok" ELSE "alarm"
                     [] OTHER -> "info",
     slot |-> debug.slot, detected_type |-> debug.detected_type,
     voltageAAA_mv |-> debug.voltageAAA_mv, voltageAA_mv |-> debug.voltageAA_mv,
     voltageDelta_mv |-> debug.voltageDelta_mv]

alert_msg(tt, a) ==
    [kind |-> "alert",
     text |-> CASE tt = "aa" -> "AA MISDETECTION ALERT!"
                [] tt = "aaa" -> "AAA DETECTION FAILURE!"
                [] OTHER -> "DETECTION ISSUE!",
     count |-> Len(a.misdetections)]

detail_msg(debug) ==
    [kind |-> "details", slot |-> debug.slot, detected_type |-> debug.detected_type,
     voltageAAA_mv |-> debug.voltageAAA_mv, voltageAA_mv |-> debug.voltageAA_mv,
     voltageDelta_mv |-> debug.voltageDelta_mv]

change_msg(last, a) ==
    [kind |-> "change", previous |-> last.total, current |-> a.total]

\* Are the per-slot voltage lines shown in this cycle.
ShowVoltages(n, a) ==
    /\ Truthy(a)
    /\ a.all_debug_info # <<>>
    /\ (n % 10 = 1 \/ Len(a.misdetections) > 0)

\* Index of the first debug entry whose ':4d' formatting raises (a value
\* that is not an int), 0 when there is none.
FirstBadEntry(debugs) ==
    IF \E k \in 1..Len(debugs) : ~debugs[k].isInt
    THEN CHOOSE k \in 1..Len(debugs) :
            /\ ~debugs[k].isInt
            /\ \A j \in 1..(k - 1) : debugs[j].isInt
    ELSE 0

\* What the loop body emits after the fetch: the lines, each printed and then
\* written, in order, and whether an exception ends the body after them.
CycleOutput(n, a, last, tt) ==
    LET summary == <<format_detection_line(n, a)>>
        bad == IF ShowVoltages(n, a) THEN FirstBadEntry(a.all_debug_info) ELSE 0
        shown == IF ~ShowVoltages(n, a) THEN 0
                 ELSE IF bad > 0 THEN bad - 1 ELSE Len(a.all_debug_info)
        voltages == [k \in 1..shown |-> voltage_line(tt, a.all_debug_info[k])]
        alerts == IF Truthy(a) /\ Len(a.misdetections) > 0
                  THEN <<alert_msg(tt, a)>>
                       \o [k \in 1..Len(a.misdetections) |-> detail_msg(a.misdetections[k])]
                  ELSE <<>>
        changes == IF Truthy(last) /\ Truthy(a) /\ a.total # last.total
                   THEN <<change_msg(last, a)>> ELSE <<>>
    IN IF bad > 0
       THEN [lines |-> summary \o voltages, raises |-> TRUE]
       ELSE [lines |-> summary \o voltages \o alerts \o changes, raises |-> FALSE]

NoOutput == [lines |-> <<>>, raises |-> FALSE]

---------------------------------------------------------------------------
(* Idle values: the variables of the parts a specification does not run *)

\* len(sys.argv) <= 2: no test type on the command line.
NoArg == <<"<", "n", "o", "n", "e", ">">>

\* sys.exit has not been called / sys.exit(n).
NotExited == [exited |-> FALSE, status |-> 0]

SysExit(n) == [exited |-> TRUE, status |-> n]

\* Nothing reported: the handler has not run.
NoReport == [total |-> -1, log |-> "none"]

MonitorIdle ==
    /\ test_type = "both" /\ pc = "idle" /\ reading_num = 1
    /\ last_analysis = NoLast /\ data = Unbound /\ analysis = NoAnalysis
    /\ out = NoOutput /\ console = <<>> /\ log_file = <<>> /\ disk = <<>>
    /\ log_open = FALSE
    /\ summaries = 0 /\ report = NoReport
    /\ argv = NoArg /\ exit = NotExited /\ logs_dir = FALSE
    /\ misdetections_seen = 0

ExtractIdle ==
    /\ extractor = "none" /\ epc = "idle" /\ listing = <<>> /\ log_files = <<>>
    /\ aa_files = <<>> /\ aaa_files = <<>> /\ cursor = 0

SetsIdle ==
    /\ aa_correct = <<>> /\ aa_misdetected = <<>>
    /\ aaa_correct = <<>> /\ aaa_failed = <<>>

NoResult == [script |-> "none", status |-> "none"]

CalibIdle == cpc = "idle" /\ result = NoResult

---------------------------------------------------------------------------
(* battery-monitor.py main: the polling loop *)

TestTypes == {"aa", "aaa", "both"}

MonitorInit ==
    /\ test_type \in TestTypes
    /\ pc = "open"
    /\ reading_num = 1
    /\ last_analysis = NoLast
    /\ data = Unbound
    /\ analysis = NoAnalysis
    /\ out = NoOutput
    /\ console = <<>>
    /\ log_file = <<>>
    /\ disk = <<>>
    /\ log_open = FALSE
    /\ summaries = 0
    /\ report = NoReport
    /\ argv = NoArg
    /\ exit = NotExited
    /\ logs_dir = TRUE
    /\ misdetections_seen = 0
    /\ ExtractIdle /\ SetsIdle /\ CalibIdle

\* open(log_filename, 'w'), the header writes and their flush.
OpenLog ==
    /\ pc = "open"
    /\ log_open' = TRUE
    /\ pc' = "fetch"
    /\ UNCHANGED <<test_type, reading_num, last_analysis, data, analysis, out,
                   console, log_file, disk>>
    /\ UNCHANGED <<summaries, report>>
    /\ UNCHANGED <<argv, exit, logs_dir>>
    /\ UNCHANGED misdetections_seen
    /\ UNCHANGED <<evars, svars, cvars>>

\* Top of the loop body: get_charger_status, analyze_detection.  An
\* exception of analyze_detection is caught nowhere (main catches only
\* KeyboardInterrupt): the with block closes the log and the process ends.
Poll ==
    /\ pc = "fetch"
    /\ reading_num <= MaxReadings
    /\ \E resp \in Responses :
         LET d == get_charger_status(resp)
             a == analyze_detection(d, test_type)
         IN /\ data' = d
            /\ analysis' = a
            /\ UNCHANGED <<console, log_file, disk>>
            /\ IF a.status = "raised"
               THEN /\ pc' = "crashed"
                    /\ log_open' = FALSE
                    /\ out' = NoOutput
               ELSE /\ pc' = "emit"
                    /\ log_open' = log_open
                    /\ out' = CycleOutput(reading_num, a, last_analysis, test_type)
    /\ UNCHANGED <<test_type, reading_num, last_analysis>>
    /\ UNCHANGED <<summaries, report>>
    /\ UNCHANGED <<argv, exit, logs_dir>>
    /\ UNCHANGED misdetections_seen
    /\ UNCHANGED <<evars, svars, cvars>>

\* print(line)
PrintLine ==
    /\ pc = "emit"
    /\ Len(console) = Len(log_file)
    /\ Len(console) < Len(out.lines)
    /\ console' = Append(console, out.lines[Len(console) + 1])
    /\ UNCHANGED <<test_type, pc, reading_num, last_analysis, data, analysis, out,
                   log_file, disk, log_open>>
    /\ UNCHANGED <<summaries, report>>
    /\ UNCHANGED <<argv, exit, logs_dir>>
    /\ UNCHANGED misdetections_seen
    /\ UNCHANGED <<evars, svars, cvars>>

\* log_file.write(line + "\n")
WriteLine ==
    /\ pc = "emit"
    /\ Len(log_file) < Len(console)
    /\ log_file' = Append(log_file, console[Len(log_file) + 1])
    /\ UNCHANGED <<test_type, pc, reading_num, last_analysis, data, analysis, out,
                   console, disk, log_open>>
    /\ summaries' = IF console[Len(log_file) + 1].kind = "summary"
                    THEN summaries + 1 ELSE summaries
    /\ UNCHANGED report
    /\ UNCHANGED <<argv, exit, logs_dir>>
    /\ UNCHANGED misdetections_seen
    /\ UNCHANGED <<evars, svars, cvars>>

\* Formatting a voltage line raises (ValueError / TypeError): the exception
\* leaves main, the with block closes the log.
FormatError ==
    /\ pc = "emit"
    /\ Len(log_file) = Len(out.lines)
    /\ out.raises
    /\ pc' = "crashed"
    /\ disk' = log_file
    /\ log_open' = FALSE
    /\ UNCHANGED <<test_type, reading_num, last_analysis, data, analysis, out,
                   console, log_file>>
    /\ UNCHANGED <<summaries, report>>
    /\ UNCHANGED <<argv, exit, logs_dir>>
    /\ UNCHANGED misdetections_seen
    /\ UNCHANGED <<evars, svars, cvars>>

\* Variant of the bottom of the loop body that counts the analysed cycles
\* only.
EndCycleBody_analysed_only ==
    /\ pc = "emit"
    /\ Len(log_file) = Len(out.lines)
    /\ ~out.raises
    /\ disk' = log_file
    /\ last_analysis' = LastOf(analysis)
    /\ reading_num' = IF Truthy(analysis) THEN reading_num + 1 ELSE reading_num
    /\ pc' = "sleep"
    /\ UNCHANGED <<test_type, data, analysis, out, console, log_file, log_open>>
    /\ UNCHANGED <<summaries, report>>
    /\ UNCHANGED <<argv, exit, logs_dir>>
    /\ UNCHANGED <<evars, svars, cvars>>

\* Bottom of the loop body: flush, last_analysis = analysis, reading_num += 1.
EndCycleBody ==
    /\ pc = "emit"
    /\ Len(log_file) = Len(out.lines)
    /\ ~out.raises
    /\ disk' = log_file
    /\ last_analysis' = LastOf(analysis)
    /\ reading_num' = reading_num + 1
    /\ pc' = "sleep"
    /\ UNCHANGED <<test_type, data, analysis, out, console, log_file, log_open>>
    /\ UNCHANGED <<summaries, report>>
    /\ UNCHANGED <<argv, exit, logs_dir>>
    /\ UNCHANGED <<evars, svars, cvars>>

\* The bottom of the loop body; main adds nothing up.
EndCycle == EndCycleBody /\ UNCHANGED misdetections_seen

\* The same step, with the history of the misdetection counts recorded.
EndCycleCounted ==
    /\ EndCycleBody
    /\ misdetections_seen' = misdetections_seen + Len(analysis.misdetections)

\* time.sleep(0.5) returns and the loop is back at its top.  data, analysis
\* and the lines of the finished cycle are dead from here on (the next fetch
\* overwrites them before anything reads them), so the model drops them.
Sleep ==
    /\ pc = "sleep"
    /\ pc' = "fetch"
    /\ data' = Unbound
    /\ analysis' = NoAnalysis
    /\ out' = NoOutput
    /\ console' = <<>>
    /\ log_file' = <<>>
    /\ disk' = <<>>
    /\ UNCHANGED <<test_type, reading_num, last_analysis, log_open>>
    /\ UNCHANGED <<summaries, report>>
    /\ UNCHANGED <<argv, exit, logs_dir>>
    /\ UNCHANGED misdetections_seen
    /\ UNCHANGED <<evars, svars, cvars>>

\* Variant of the interruption in which the handle stays as it was: the
\* handler runs while the log is still open and its buffer unflushed.
Interrupt_unclosed ==
    /\ pc \in {"fetch", "emit", "sleep"}
    /\ pc' = "stopped"
    /\ report' = [total |-> reading_num - 1, log |-> "log_filename"]
    /\ UNCHANGED <<test_type, reading_num, last_analysis, data, analysis, out,
                   console, log_file, disk, log_open, summaries>>
    /\ UNCHANGED <<argv, exit, logs_dir>>
    /\ UNCHANGED misdetections_seen
    /\ UNCHANGED <<evars, svars, cvars>>

\* KeyboardInterrupt inside the try: the with block closes (and so flushes)
\* the log, the handler reports reading_num - 1 and the log name.
Interrupt ==
    /\ pc \in {"fetch", "emit", "sleep"}
    /\ pc' = "stopped"
    /\ disk' = log_file
    /\ log_open' = FALSE
    /\ UNCHANGED <<test_type, reading_num, last_analysis, data, analysis, out,
                   console, log_file>>
    /\ report' = [total |-> reading_num - 1, log |-> "log_filename"]
    /\ UNCHANGED summaries
    /\ UNCHANGED <<argv, exit, logs_dir>>
    /\ UNCHANGED misdetections_seen
    /\ UNCHANGED <<evars, svars, cvars>>

LoopStep == OpenLog \/ Poll \/ PrintLine \/ WriteLine \/ FormatError \/ EndCycle \/ Sleep

MonitorNext == LoopStep \/ Interrupt

Spec == MonitorInit /\ [][MonitorNext]_vars

\* The loop body never blocks for good: the fetch has a 5 s timeout, the
\* sleep lasts 0.5 s, everything else is local computation.
FairSpec == MonitorInit /\ [][MonitorNext]_vars /\ WF_vars(LoopStep)

---------------------------------------------------------------------------
(* battery-monitor.py main: the start, up to the polling loop *)

s_aa == <<"a", "a">>
s_aaa == <<"a", "a", "a">>
s_both == <<"b", "o", "t", "h">>

\* str.lower() of one character, on the characters the tokens are made of.
lower_char(c) ==
    CASE c = "A" -> "a"
      [] c = "B" -> "b"
      [] c = "O" -> "o"
      [] c = "T" -> "t"
      [] c = "H" -> "h"
      [] OTHER -> c

\* Variant of lower that leaves the string as it is.
lower_not(str) == str

\* str.lower()
lower(str) == [i \in 1..Len(str) |-> lower_char(str[i])]

\* The value of test_type as the loop's model names it; a string that is no
\* mode is only ever held between its assignment and sys.exit(1).
ModeName(str) ==
    CASE str = s_aa -> "aa"
      [] str = s_aaa -> "aaa"
      [] str = s_both -> "both"
      [] OTHER -> "invalid"

\* Tokens given as sys.argv[2].
Tokens ==
    { s_aa, s_aaa, <<"A", "A">>, <<"a", "A", "a">>, <<"B", "o", "t", "h">>,
      <<>>, <<"a">>, <<"a", "a", "a", "a">>, <<"1">>, <<" ", "a", "a">>,
      <<"a", "a", "_">>, <<"b", "o", "t">> }

\* What input() returns to get_test_mode after strip(), or the
\* KeyboardInterrupt / EOFError it raises.
Choices == {"1", "2", "3", "", "aa", "EOF"}

StartInit ==
    /\ argv \in Tokens \cup {NoArg}
    /\ test_type = "unset"
    /\ pc = "start"
    /\ reading_num = 1
    /\ last_analysis = NoLast
    /\ data = Unbound
    /\ analysis = NoAnalysis
    /\ out = NoOutput
    /\ console = <<>>
    /\ log_file = <<>>
    /\ disk = <<>>
    /\ log_open = FALSE
    /\ summaries = 0
    /\ report = NoReport
    /\ exit = NotExited
    /\ logs_dir = FALSE
    /\ misdetections_seen = 0
    /\ ExtractIdle /\ SetsIdle /\ CalibIdle

\* main, lines 170-179: the test type from the command line.
ParseArgs ==
    /\ pc = "start"
    /\ IF argv # NoArg
       THEN /\ test_type' = ModeName(lower(argv))
            /\ IF lower(argv) \notin {s_aa, s_aaa, s_both}
               THEN /\ console' = <<[kind |-> "invalid"], [kind |-> "usage"]>>
                    /\ exit' = SysExit(1)
                    /\ pc' = "exited"
               ELSE /\ pc' = "makedirs"
                    /\ UNCHANGED <<console, exit>>
       ELSE /\ pc' = "prompt"
            /\ UNCHANGED <<test_type, console, exit>>
    /\ UNCHANGED <<reading_num, last_analysis, data, analysis, out, log_file,
                   disk, log_open, summaries, report, argv, logs_dir>>
    /\ UNCHANGED misdetections_seen
    /\ UNCHANGED <<evars, svars, cvars>>

\* get_test_mode: one turn of its input loop.
get_test_mode ==
    /\ pc = "prompt"
    /\ \E choice \in Choices :
         CASE choice = "1" -> test_type' = "aa" /\ pc' = "makedirs" /\ exit' = exit
           [] choice = "2" -> test_type' = "aaa" /\ pc' = "makedirs" /\ exit' = exit
           [] choice = "3" -> test_type' = "both" /\ pc' = "makedirs" /\ exit' = exit
           [] choice = "EOF" -> test_type' = test_type /\ pc' = "exited" /\ exit' = SysExit(0)
           [] OTHER -> UNCHANGED <<test_type, pc, exit>>
    /\ UNCHANGED <<reading_num, last_analysis, data, analysis, out, console,
                   log_file, disk, log_open, summaries, report, argv, logs_dir>>
    /\ UNCHANGED misdetections_seen
    /\ UNCHANGED <<evars, svars, cvars>>

\* os.makedirs("logs", exist_ok=True), the log file name and the banner.
MakeDirs ==
    /\ pc = "makedirs"
    /\ logs_dir' = TRUE
    /\ pc' = "open"
    /\ UNCHANGED <<test_type, reading_num, last_analysis, data, analysis, out,
                   console, log_file, disk, log_open, summaries, report, argv,
                   exit>>
    /\ UNCHANGED misdetections_seen
    /\ UNCHANGED <<evars, svars, cvars>>

StartNext == ParseArgs \/ get_test_mode \/ MakeDirs \/ MonitorNext

StartSpec == StartInit /\ [][StartNext]_vars

\* The monitor with the history of its misdetection counts.
CountedNext ==
    \/ OpenLog \/ Poll \/ PrintLine \/ WriteLine \/ FormatError
    \/ EndCycleCounted \/ Sleep \/ Interrupt

CountedSpec == MonitorInit /\ [][CountedNext]_vars

---------------------------------------------------------------------------
(* Vocabulary of the monitor claims *)

\* The class a type label stands for.
ClassOf(label) ==
    IF label = KLVR_AAA THEN "AAA" ELSE IF label = KLVR_AA THEN "AA" ELSE "other"

\* The snapshot of this cycle was analysed.
Analysed == analysis.status = "ok"

\* Non-empty slots (1-based) of the analysed snapshot, and those of a class.
ActiveSlots == {i \in 1..Len(data.batteries) : data.batteries[i].slotState # "empty"}

SlotsOfClass(c) == {i \in ActiveSlots : ClassOf(data.batteries[i].batteryDetected) = c}

\* Slot i is in the misdetection list a.
InMisdetections(a, i) ==
    \E k \in 1..Len(a.misdetections) : a.misdetections[k].slot = i - 1

IsAlarmLine(l) == l.kind \in {"alert", "details"}

\* The summary, alert and DETAILS lines of a sequence of lines, in order.
Headlines(lines) ==
    LET Keep(l) == l.kind \in {"summary", "alert", "details"}
    IN SelectSeq(lines, Keep)

\* The snapshot deviates from the expected shape.
Malformed(d) ==
    \/ d.top \in {"empty", "number", "list"}
    \/ d.top = "object" /\ ~d.hasBatteries
    \/ \E i \in 1..Len(d.batteries) :
          LET b == d.batteries[i]
          IN ~b.hasSlotState \/ ~b.hasDetected \/ ~b.detectedIsStr \/ ~b.debugIsInt

FailedLine(n) == SummaryLine(n, "Connection failed", 0, 0, 0, "")

---------------------------------------------------------------------------
(* C2 *)

\* C2: under test mode 'aa', every non-empty slot of the analysed snapshot
\* whose label resolves to AAA is in analysis['misdetections'] and is counted
\* in the summary line, with or without the optional 'debug' object.
C2_EveryAAASlotCounted ==
    (test_type = "aa" /\ Analysed) =>
        /\ \A i \in SlotsOfClass("AAA") : InMisdetections(analysis, i)
        /\ out.lines[1].second = Cardinality(SlotsOfClass("AAA"))

---------------------------------------------------------------------------
(* C3 *)

---------------------------------------------------------------------------
(* C4 *)

\* C4: in 'both' mode the misdetection list is empty, no alert line and no
\* DETAILS line is printed or logged, and the summary line of an analysed
\* snapshot carries the total, AA and AAA tallies and nothing else.
C4_BothOnlyTallies ==
    test_type = "both" =>
        /\ analysis.misdetections = <<>>
        /\ \A k \in 1..Len(out.lines) : ~IsAlarmLine(out.lines[k])
        /\ \A k \in 1..Len(console) : ~IsAlarmLine(console[k])
        /\ \A k \in 1..Len(log_file) : ~IsAlarmLine(log_file[k])
        /\ Analysed =>
              /\ out.lines[1].tag = "BOTH"
              /\ out.lines[1].total = Cardinality(ActiveSlots)
              /\ out.lines[1].first = Cardinality(SlotsOfClass("AA"))
              /\ out.lines[1].second = Cardinality(SlotsOfClass("AAA"))
              /\ out.lines[1].status = ""

\* A 'both' cycle completed on a snapshot holding an AA and an AAA slot that
\* both carry debug data.
C4_Witness ==
    /\ test_type = "both" /\ pc = "sleep" /\ Analysed
    /\ \E i \in SlotsOfClass("AA") : data.batteries[i].hasDebug
    /\ \E i \in SlotsOfClass("AAA") : data.batteries[i].hasDebug
    /\ Len(log_file) >= 1

---------------------------------------------------------------------------
(* C5 *)

\* The order part of C5, for a completed cycle.
C5_Order ==
    pc = "sleep" =>
        LET k == Len(analysis.misdetections)
        IN IF k >= 1
           THEN Headlines(log_file) =
                    <<out.lines[1], alert_msg(test_type, analysis)>>
                    \o [j \in 1..k |-> detail_msg(analysis.misdetections[j])]
           ELSE \A j \in 1..Len(log_file) : ~IsAlarmLine(log_file[j])

\* C5: a completed cycle with k >= 1 misdetections logs the summary line, one
\* alert line stating k and k DETAILS lines in slot order, a cycle with k = 0
\* or a failed fetch logs no alert and no DETAILS line; and a snapshot with
\* two occupied slots, one AA and one AAA, under 'aa' gives exactly one
\* misdetection, the AAA slot.
C5_AlertAndDetails ==
    /\ C5_Order
    /\ (/\ pc = "sleep" /\ test_type = "aa" /\ Analysed
        /\ Cardinality(ActiveSlots) = 2
        /\ Cardinality(SlotsOfClass("AA")) = 1
        /\ Cardinality(SlotsOfClass("AAA")) = 1)
       => /\ Len(analysis.misdetections) = 1
          /\ \A i \in SlotsOfClass("AAA") : InMisdetections(analysis, i)
          /\ \E j \in 1..Len(log_file) : log_file[j].kind = "alert"

---------------------------------------------------------------------------
(* C6 *)

\* A cycle whose fetch failed crashes nothing and emits the 'Connection
\* failed' summary line and nothing else.
C6_FailedCycleQuiet ==
    data = None =>
        /\ pc # "crashed"
        /\ \E n \in 1..MaxReadings :
              /\ out.lines = <<FailedLine(n)>>
              /\ Len(console) <= 1 /\ Len(log_file) <= Len(console)
              /\ \A j \in 1..Len(console) : console[j] = FailedLine(n)
              /\ \A j \in 1..Len(log_file) : log_file[j] = FailedLine(n)
              /\ pc = "sleep" => (log_file = <<FailedLine(n)>> /\ disk = log_file)

\* C6: a cycle whose fetch fails writes exactly one 'Connection failed' line
\* and nothing else, raises nothing, and, unless the monitor is interrupted,
\* is followed by the fetch step of the next cycle.
C6_FailedFetchContinues ==
    /\ []C6_FailedCycleQuiet
    /\ \A n \in 1..MaxReadings :
          (pc = "emit" /\ data = None /\ reading_num = n)
              ~> (pc = "stopped" \/ (pc = "fetch" /\ reading_num = n + 1))

\* Two failed fetches in a row: the second cycle ran after the first failed.
C6_Witness ==
    /\ pc = "sleep" /\ reading_num = 3
    /\ data = None /\ last_analysis = NoLast
    /\ log_file = <<FailedLine(2)>>

---------------------------------------------------------------------------
(* C7 *)

\* C7: a fetched snapshot that does not match the expected shape is treated
\* as no data or skipped, and never ends the polling loop.
C7_MalformedNeverCrashes ==
    Malformed(data) => (pc # "crashed" /\ analysis.status # "raised")

---------------------------------------------------------------------------
(* The log corpus and the extractors *)

s_log == <<".", "l", "o", "g">>
s_aa_ == <<"a", "a", "_">>
s_aaa_ == <<"a", "a", "a", "_">>

\* File names as the monitor creates them (detection_monitor_<type>_<time>.log,
\* shortened), and one file that is no log.
FileNames ==
    { <<"m", "_", "a", "a", "_", "1", ".", "l", "o", "g">>,
      <<"m", "_", "a", "a", "_", "2", ".", "l", "o", "g">>,
      <<"m", "_", "a", "a", "a", "_", "1", ".", "l", "o", "g">>,
      <<"m", "_", "b", "o", "t", "h", "_", "1", ".", "l", "o", "g">>,
      <<"m", "_", "a", "a", "_", "1", ".", "t", "x", "t">> }

\* One line of a file as the measurement pattern sees it: a match with its
\* groups 2 and 3, or no match.
Measured(detected_type, delta) ==
    [matches |-> TRUE, detected_type |-> detected_type, delta |-> delta]

OtherLine == [matches |-> FALSE, detected_type |-> <<>>, delta |-> 0]

FileContents ==
    { <<>>,
      <<Measured(KLVR_AA, 5)>>,
      <<Measured(KLVR_AAA, 300)>>,
      <<Measured(KLVR_AA, -7), OtherLine, Measured(KLVR_AAA, 290)>> }

\* What is on disk in a file that cannot be opened or decoded.
UnreadContent == <<Measured(KLVR_AA, 5), Measured(KLVR_AAA, 300)>>

\* A file: open/read raises when it is not readable.
Files ==
    { [name |-> nm, readable |-> TRUE, lines |-> c] : nm \in FileNames, c \in FileContents }
    \cup { [name |-> nm, readable |-> FALSE, lines |-> UnreadContent] : nm \in FileNames }

\* What os.listdir can return: up to MaxFiles files with distinct names, in
\* any order.
Listings ==
    UNION { { l \in [1..n -> Files] :
                \A i, j \in 1..n : i # j => l[i].name # l[j].name } : n \in 0..MaxFiles }

\* re.finditer(pattern, content): the matching lines, in order.
finditer(f) ==
    LET IsMatch(l) == l.matches
    IN SelectSeq(f.lines, IsMatch)

\* The deltas appended by the `if detected_type == t` branch (eq) or by its
\* else branch (~eq) over the matches of f.
Appended(f, t, eq) ==
    LET Taken(l) == (l.detected_type = t) <=> eq
        ms == SelectSeq(finditer(f), Taken)
    IN [k \in 1..Len(ms) |-> ms[k].delta]

test_type_of_unskipped(name) ==
    IF Contains(name, s_aaa_) THEN "aaa" ELSE "aa"

\* "Determine test type from filename" of delta_analysis and
\* dual_range_analysis.
test_type_of(name) ==
    IF Contains(name, s_aa_) THEN "aa"
    ELSE IF Contains(name, s_aaa_) THEN "aaa"
    ELSE "skip"

\* The aa_files / aaa_files split of proper_dual_range_analysis.
test_type_proper(name) ==
    IF Contains(name, s_aa_) /\ ~Contains(name, s_aaa_) THEN "aa"
    ELSE IF Contains(name, s_aaa_) THEN "aaa"
    ELSE "skip"

\* The '.log' files of a listing, in listing order.
LogFilesOf(l) ==
    LET IsLog(f) == EndsWith(f.name, s_log)
    IN SelectSeq(l, IsLog)

\* The files detailed_delta_analysis takes: '.log' names containing 'aa_'.
AATestLogsOf(l) ==
    LET IsAALog(f) == EndsWith(f.name, s_log) /\ Contains(f.name, s_aa_)
    IN SelectSeq(l, IsAALog)

FilesOfType(fs, tt) ==
    LET Is(f) == test_type_proper(f.name) = tt
    IN SelectSeq(fs, Is)

Extractors == {"delta", "dual", "proper", "detailed"}

ExtractInit ==
    /\ extractor \in Extractors
    /\ epc = "list"
    /\ listing \in Listings
    /\ log_files = <<>>
    /\ aa_files = <<>>
    /\ aaa_files = <<>>
    /\ cursor = 0
    /\ SetsIdle
    /\ MonitorIdle /\ CalibIdle

\* os.listdir and the file name filter; for proper_dual_range_analysis also
\* the split into aa_files and aaa_files.
ListDir ==
    /\ epc = "list"
    /\ log_files' = IF extractor = "detailed" THEN AATestLogsOf(listing)
                    ELSE LogFilesOf(listing)
    /\ IF extractor = "proper"
       THEN /\ aa_files' = FilesOfType(LogFilesOf(listing), "aa")
            /\ aaa_files' = FilesOfType(LogFilesOf(listing), "aaa")
            /\ epc' = "scan_aa"
       ELSE /\ UNCHANGED <<aa_files, aaa_files>>
            /\ epc' = "scan"
    /\ cursor' = 0
    /\ UNCHANGED <<extractor, listing>>
    /\ UNCHANGED <<mvars, svars, cvars>>

AfterFile_unguarded(f, tt) ==
    IF tt = "skip"
    THEN <<aa_correct, aa_misdetected, aaa_correct, aaa_failed>>
    ELSE IF tt = "aa"
    THEN <<aa_correct \o Appended(f, KLVR_AA, TRUE),
           aa_misdetected \o Appended(f, KLVR_AA, FALSE),
           aaa_correct, aaa_failed>>
    ELSE <<aa_correct, aa_misdetected,
           aaa_correct \o Appended(f, KLVR_AAA, TRUE),
           aaa_failed \o Appended(f, KLVR_AAA, FALSE)>>

\* The four sets after one iteration of a file loop that takes file f as a
\* test of type tt.  open/read raising is caught per file: nothing is added.
AfterFile(f, tt) ==
    IF ~f.readable \/ tt = "skip"
    THEN <<aa_correct, aa_misdetected, aaa_correct, aaa_failed>>
    ELSE IF tt = "aa"
    THEN <<aa_correct \o Appended(f, KLVR_AA, TRUE),
           aa_misdetected \o Appended(f, KLVR_AA, FALSE),
           aaa_correct, aaa_failed>>
    ELSE <<aa_correct, aa_misdetected,
           aaa_correct \o Appended(f, KLVR_AAA, TRUE),
           aaa_failed \o Appended(f, KLVR_AAA, FALSE)>>

\* One iteration of the file loop of delta_analysis / dual_range_analysis,
\* or of detailed_delta_analysis, which takes every file as an AA test.
ProcessFile ==
    /\ epc = "scan"
    /\ cursor < Len(log_files)
    /\ LET f == log_files[cursor + 1]
           tt == IF extractor = "detailed" THEN "aa" ELSE test_type_of(f.name)
           after == AfterFile(f, tt)
       IN /\ aa_correct' = after[1]
          /\ aa_misdetected' = after[2]
          /\ aaa_correct' = after[3]
          /\ aaa_failed' = after[4]
    /\ cursor' = cursor + 1
    /\ UNCHANGED <<extractor, epc, listing, log_files, aa_files, aaa_files>>
    /\ UNCHANGED <<mvars, cvars>>

\* One iteration of the aa_files loop of proper_dual_range_analysis.
ProcessAAFile ==
    /\ epc = "scan_aa"
    /\ cursor < Len(aa_files)
    /\ LET after == AfterFile(aa_files[cursor + 1], "aa")
       IN /\ aa_correct' = after[1]
          /\ aa_misdetected' = after[2]
          /\ aaa_correct' = after[3]
          /\ aaa_failed' = after[4]
    /\ cursor' = cursor + 1
    /\ UNCHANGED <<extractor, epc, listing, log_files, aa_files, aaa_files>>
    /\ UNCHANGED <<mvars, cvars>>

\* The aa_files loop ends, the aaa_files loop starts.
StartAAAFiles ==
    /\ epc = "scan_aa"
    /\ cursor = Len(aa_files)
    /\ epc' = "scan_aaa"
    /\ cursor' = 0
    /\ UNCHANGED <<extractor, listing, log_files, aa_files, aaa_files>>
    /\ UNCHANGED <<mvars, svars, cvars>>

\* One iteration of the aaa_files loop of proper_dual_range_analysis.
ProcessAAAFile ==
    /\ epc = "scan_aaa"
    /\ cursor < Len(aaa_files)
    /\ LET after == AfterFile(aaa_files[cursor + 1], "aaa")
       IN /\ aa_correct' = after[1]
          /\ aa_misdetected' = after[2]
          /\ aaa_correct' = after[3]
          /\ aaa_failed' = after[4]
    /\ cursor' = cursor + 1
    /\ UNCHANGED <<extractor, epc, listing, log_files, aa_files, aaa_files>>
    /\ UNCHANGED <<mvars, cvars>>

\* The last file loop ends: the extractor returns the sets to its main.
ReturnSets ==
    /\ \/ epc = "scan" /\ cursor = Len(log_files)
       \/ epc = "scan_aaa" /\ cursor = Len(aaa_files)
    /\ epc' = "done"
    /\ cpc' = "ready"
    /\ UNCHANGED <<extractor, listing, log_files, aa_files, aaa_files, cursor>>
    /\ UNCHANGED <<mvars, svars, result>>

\* The class a file name is hinted to belong to: 'aaa_' anywhere in the name
\* is the AAA hint, 'aa_' without it the AA hint.
HintOf(name) ==
    IF Contains(name, s_aaa_) THEN "aaa"
    ELSE IF Contains(name, s_aa_) THEN "aa"
    ELSE "none"

\* The files whose loop iteration has completed, in processing order.
Processed ==
    IF epc = "scan" THEN SubSeq(log_files, 1, cursor)
    ELSE IF epc = "scan_aa" THEN SubSeq(aa_files, 1, cursor)
    ELSE IF epc = "scan_aaa" THEN aa_files \o SubSeq(aaa_files, 1, cursor)
    ELSE IF epc = "done" /\ extractor = "proper" THEN aa_files \o aaa_files
    ELSE IF epc = "done" THEN log_files
    ELSE <<>>

\* The deltas of the matching lines of the readable files of fs hinted
\* `hint` whose detected label is t (eq) or is not t (~eq).
RECURSIVE Gathered(_, _, _, _)
Gathered(fs, hint, t, eq) ==
    IF fs = <<>> THEN <<>>
    ELSE (IF Head(fs).readable /\ HintOf(Head(fs).name) = hint
          THEN Appended(Head(fs), t, eq)
          ELSE <<>>) \o Gathered(Tail(fs), hint, t, eq)

HintDecidesClass ==
    /\ aa_correct = Gathered(Processed, "aa", KLVR_AA, TRUE)
    /\ aa_misdetected = Gathered(Processed, "aa", KLVR_AAA, TRUE)
    /\ aaa_correct = Gathered(Processed, "aaa", KLVR_AAA, TRUE)
    /\ aaa_failed = Gathered(Processed, "aaa", KLVR_AA, TRUE)

\* C1: in each of the three extractors, the matching lines of a file hinted
\* 'aaa_' feed the correct-AAA set (detected KLVR-AAA) and the AAA-misdetected
\* set (detected KLVR-AA) and never an AA set; those of a file hinted 'aa_'
\* feed the two AA sets only.
C1_HintDecidesClass ==
    extractor \in {"delta", "dual", "proper"} => HintDecidesClass

\* The split of proper_dual_range_analysis does honour the hint.
C1_ProperHonoursHint ==
    extractor = "proper" => HintDecidesClass

---------------------------------------------------------------------------
(* The calibration scripts *)

abs(d) == IF d < 0 THEN -d ELSE d

\* [abs(d) for d in s]
AbsAll(s) == [i \in 1..Len(s) |-> abs(s[i])]

sorted_not(s) == s

sorted(s) ==
    LET lt(a, b) == a < b
    IN SortSeq(s, lt)

min(s) == CHOOSE x \in {s[i] : i \in 1..Len(s)} : \A j \in 1..Len(s) : x <= s[j]

max(s) == CHOOSE x \in {s[i] : i \in 1..Len(s)} : \A j \in 1..Len(s) : x >= s[j]

\* Variant of at that reads the list in the order it was gathered.
at_unsorted(s, num, den) == s[(num * Len(s)) \div den + 1]

\* sorted(s)[int(num/den * len(s))]: the index is the integer part of the
\* product, and sequences here are indexed from 1.
at(s, num, den) == sorted(s)[(num * Len(s)) \div den + 1]

\* len([d for d in s if lo <= d <= hi])
CountWithin(s, lo, hi) == Cardinality({i \in 1..Len(s) : lo <= s[i] /\ s[i] <= hi})

\* The separation verdict printed by analyze_delta_patterns: the largest
\* |delta| of the correct AA against the smallest |delta| of the misdetections.
analyze_delta_patterns(aa, mis) ==
    IF aa = <<>> \/ mis = <<>>
    THEN [separation |-> "none", threshold |-> 0]
    ELSE LET aa_good_max == max(AbsAll(aa))
             aa_bad_min == min(AbsAll(mis))
         IN IF aa_good_max < aa_bad_min
            THEN [separation |-> "clean", threshold |-> (aa_good_max + aa_bad_min) \div 2]
            ELSE [separation |-> "overlap", threshold |-> 0]

optimal_threshold_ceil(p99, misdetection_min) == (p99 + misdetection_min + 1) \div 2

\* optimal = (p99 + misdetection_min) // 2
optimal_threshold(p99, misdetection_min) == (p99 + misdetection_min) \div 2

\* if p99 < misdetection_min
IsClear(p99, misdetection_min) == p99 < misdetection_min

Refusal == [refused |-> TRUE]

confidence_level_inclusive(mis, misdetection_min, p95, p99) ==
    IF mis = <<>> THEN "MEDIUM"
    ELSE IF misdetection_min >= p99 THEN "HIGH"
    ELSE IF misdetection_min > p95 THEN "MEDIUM"
    ELSE "LOW"

\* The confidence the "Choose based on data characteristics" block prints.
confidence_level(mis, misdetection_min, p95, p99) ==
    IF mis = <<>> THEN "MEDIUM"
    ELSE IF misdetection_min > p99 THEN "HIGH"
    ELSE IF misdetection_min > p95 THEN "MEDIUM"
    ELSE "LOW"

recommend_optimal_threshold(aa, mis) ==
    IF aa = <<>> THEN Refusal
    ELSE
    LET aa_abs_deltas == AbsAll(aa)
        p90 == at(aa_abs_deltas, 90, 100)
        p95 == at(aa_abs_deltas, 95, 100)
        p99 == at(aa_abs_deltas, 99, 100)
        p999 == at(aa_abs_deltas, 999, 1000)
        misdetection_min == IF mis = <<>> THEN 0 ELSE min(AbsAll(mis))
        clear == mis # <<>> /\ IsClear(p99, misdetection_min)
    IN [refused |-> FALSE,
        p90 |-> p90, p95 |-> p95, p99 |-> p99, p999 |-> p999,
        misdetection_min |-> misdetection_min,
        separation |-> IF mis = <<>> THEN "none"
                       ELSE IF clear THEN "clear" ELSE "overlap",
        optimal |-> IF clear THEN optimal_threshold(p99, misdetection_min) ELSE 0,
        recommended |-> IF mis = <<>> THEN p99
                        ELSE IF misdetection_min > p99 THEN p99
                        ELSE IF misdetection_min > p95 THEN p95
                        ELSE p90,
        confidence |-> confidence_level(mis, misdetection_min, p95, p99)]

\* The outcome of a script: it ran to its end, or an exception left main.
Completed(script, outcome) ==
    [script |-> script, status |-> "ok", where |-> "", error |-> "", outcome |-> outcome]

Raised(script, where, error) ==
    [script |-> script, status |-> "raised", where |-> where, error |-> error,
     outcome |-> Refusal]

\* delta_analysis.main after the extraction.
delta_analysis_main ==
    /\ cpc = "ready"
    /\ extractor \in {"none", "delta"}
    /\ result' = Completed("delta",
                     [patterns |-> analyze_delta_patterns(aa_correct, aa_misdetected),
                      recommendation |-> recommend_optimal_threshold(aa_correct, aa_misdetected)])
    /\ cpc' = "done"
    /\ UNCHANGED <<mvars, evars, svars>>

\* The ranges recommend_dual_ranges returns, or its refusal (None).
recommend_dual_ranges(aa, aaa) ==
    IF aa = <<>> THEN Refusal
    ELSE
    LET aa_conservative == <<at(aa, 1, 100), at(aa, 99, 100)>>
        aa_balanced == <<at(aa, 5, 100), at(aa, 95, 100)>>
        aaa_conservative == IF aaa # <<>> THEN <<at(aaa, 1, 100), at(aaa, 99, 100)>>
                            ELSE <<200, 400>>
        aaa_balanced == IF aaa # <<>> THEN <<at(aaa, 5, 100), at(aaa, 95, 100)>>
                        ELSE <<250, 350>>
        hi(a, b) == IF a >= b THEN a ELSE b
        lo(a, b) == IF a <= b THEN a ELSE b
    IN [refused |-> FALSE,
        aa_conservative |-> aa_conservative, aa_balanced |-> aa_balanced,
        aaa_conservative |-> aaa_conservative, aaa_balanced |-> aaa_balanced,
        theoretical |-> aaa = <<>>,
        aa_min |-> hi(aa_balanced[1], -100),
        aa_max |-> lo(aa_balanced[2], 100),
        aaa_min |-> IF aaa # <<>> THEN hi(aaa_balanced[1], 200) ELSE 250,
        aaa_max |-> IF aaa # <<>> THEN lo(aaa_balanced[2], 500) ELSE 380]

\* dual_range_analysis.main after the extraction: analyze_dual_ranges guards
\* its standard deviations and only prints; main then subscripts what
\* recommend_dual_ranges returned, which is None after a refusal.
dual_range_analysis_main ==
    /\ cpc = "ready"
    /\ extractor \in {"none", "dual"}
    /\ LET ranges == recommend_dual_ranges(aa_correct, aaa_correct)
       IN result' = IF ranges.refused
                    THEN Raised("dual", "main", "TypeError")
                    ELSE Completed("dual", ranges)
    /\ cpc' = "done"
    /\ UNCHANGED <<mvars, evars, svars>>

RECURSIVE Sum(_)
Sum(s) == IF s = <<>> THEN 0 ELSE Head(s) + Sum(Tail(s))

SumSq(s) == Sum([i \in 1..Len(s) |-> s[i] * s[i]])

\* The integer part of a square root, found by bisection.
RECURSIVE isqrt_between(_, _, _)
isqrt_between(N, low, high) ==
    IF low = high THEN low
    ELSE LET mid == (low + high + 1) \div 2
         IN IF mid * mid <= N THEN isqrt_between(N, mid, high)
            ELSE isqrt_between(N, low, mid - 1)

isqrt(N) == isqrt_between(N, 0, IF N < 46340 THEN N ELSE 46340)

\* int(x) of the quotient of a real numerator by D > 0, given the floor fl and
\* the ceiling ce of the numerator: int() truncates toward zero.
TruncDiv(fl, ce, D) == IF fl >= 0 THEN fl \div D ELSE -((-ce) \div D)

\* int(statistics.mean(s) + sign * statistics.stdev(s)) for len(s) > 1.
\* With n = len(s), S = sum, Q = sum of squares: mean = S/n and
\* stdev = sqrt((n*Q - S*S) / (n*(n-1))), so mean +- stdev is
\* (S*(n-1) +- sqrt((n*Q - S*S) * n*(n-1))) / (n*(n-1)).
int_mean_std(s, sign) ==
    LET n == Len(s)
        D == n * (n - 1)
        a == Sum(s) * (n - 1)
        N == (n * SumSq(s) - Sum(s) * Sum(s)) * D
        r == isqrt(N)
        rc == IF r * r = N THEN r ELSE r + 1
    IN IF sign > 0 THEN TruncDiv(a + r, a + rc, D)
       ELSE TruncDiv(a - rc, a - r, D)

\* statistics.stdev(s) raises StatisticsError on fewer than two values.
stdev_raises(s) == Len(s) < 2

\* len([d for d in s if d < lo or d > hi])
CountOutside(s, lo, hi) == Len(s) - CountWithin(s, lo, hi)

\* recommend_optimal_dual_ranges: where it raises, or what it prints.
recommend_optimal_dual_ranges(aa, mis, aaa) ==
    IF aa = <<>> THEN [raises |-> FALSE, outcome |-> Refusal]
    ELSE IF stdev_raises(aa) \/ (aaa # <<>> /\ stdev_raises(aaa))
            \/ (aaa = <<>> /\ mis # <<>> /\ stdev_raises(mis))
    THEN [raises |-> TRUE, outcome |-> Refusal]
    ELSE
    LET aa_95_lower == at(aa, 25, 1000)
        aa_95_upper == at(aa, 975, 1000)
        aa_99_upper == at(aa, 995, 1000)
        aaa_90_lower == at(aaa, 5, 100)
        aaa_min == IF aaa # <<>> THEN at(aaa, 25, 1000)
                   ELSE IF mis # <<>> THEN int_mean_std(mis, -1)
                   ELSE 250
        aaa_max == IF aaa # <<>> THEN at(aaa, 975, 1000)
                   ELSE IF mis # <<>> THEN int_mean_std(mis, 1)
                   ELSE 380
    IN [raises |-> FALSE,
        outcome |->
          [refused |-> FALSE,
           aa_90 |-> <<at(aa, 5, 100), at(aa, 95, 100)>>,
           aa_95 |-> <<aa_95_lower, aa_95_upper>>,
           aa_99 |-> <<at(aa, 5, 1000), aa_99_upper>>,
           aaa_90 |-> IF aaa # <<>> THEN <<aaa_90_lower, at(aaa, 95, 100)>> ELSE <<>>,
           aaa_99 |-> IF aaa # <<>> THEN <<at(aaa, 5, 1000), at(aaa, 995, 1000)>> ELSE <<>>,
           separation |-> IF aaa = <<>> THEN "none"
                          ELSE IF aa_99_upper < aaa_90_lower THEN "clean"
                          ELSE "overlap",
           gap_size |-> IF aaa # <<>> /\ aa_99_upper < aaa_90_lower
                        THEN aaa_90_lower - aa_99_upper ELSE 0,
           source |-> IF aaa # <<>> THEN "aaa"
                      ELSE IF mis # <<>> THEN "proxy" ELSE "theoretical",
           aa_min |-> aa_95_lower, aa_max |-> aa_95_upper,
           aaa_min |-> aaa_min, aaa_max |-> aaa_max,
           aa_lost |-> CountOutside(aa, aa_95_lower, aa_95_upper),
           aaa_lost |-> IF aaa # <<>> THEN CountOutside(aaa, aaa_min, aaa_max) ELSE 0]]

\* proper_dual_range_analysis.main after the extraction:
\* analyze_battery_type_ranges guards its standard deviations and only
\* prints; recommend_optimal_dual_ranges does not guard them.
proper_dual_range_analysis_main ==
    /\ cpc = "ready"
    /\ extractor \in {"none", "proper"}
    /\ LET rec == recommend_optimal_dual_ranges(aa_correct, aa_misdetected, aaa_correct)
       IN result' = IF rec.raises
                    THEN Raised("proper", "recommend_optimal_dual_ranges", "StatisticsError")
                    ELSE Completed("proper", rec.outcome)
    /\ cpc' = "done"
    /\ UNCHANGED <<mvars, evars, svars>>

at_clamped_unsorted(s, num, den) ==
    LET idx == (num * Len(s)) \div den
    IN s[(IF idx >= Len(s) THEN Len(s) - 1 ELSE idx) + 1]

\* aa_sorted[upper_idx] with upper_idx clamped to the last index.
at_clamped(s, num, den) ==
    LET idx == (num * Len(s)) \div den
    IN sorted(s)[(IF idx >= Len(s) THEN Len(s) - 1 ELSE idx) + 1]

\* recommend_based_on_real_data on a non-empty AA set.
recommend_based_on_real_data(aa, mis) ==
    IF mis # <<>> /\ stdev_raises(mis) THEN [raises |-> TRUE, outcome |-> Refusal]
    ELSE
    LET near_zero_count == CountWithin(aa, -50, 50)
        tight == near_zero_count * 100 > 85 * Len(aa)
    IN [raises |-> FALSE,
        outcome |->
          [refused |-> FALSE,
           aggressive |-> <<at(aa, 5, 100), at_clamped(aa, 95, 100)>>,
           balanced |-> <<at(aa, 25, 1000), at_clamped(aa, 975, 1000)>>,
           conservative |-> <<at(aa, 5, 1000), at_clamped(aa, 995, 1000)>>,
           ultra |-> <<at(aa, 5, 10000), at_clamped(aa, 9995, 10000)>>,
           separation |-> IF mis = <<>> THEN "none"
                          ELSE IF max(aa) < min(mis) THEN "clean" ELSE "overlap",
           aa_min |-> IF tight THEN -50 ELSE at(aa, 5, 100),
           aa_max |-> IF tight THEN 50 ELSE at(aa, 95, 100),
           aaa_min |-> IF mis # <<>> THEN int_mean_std(mis, -1) ELSE 250,
           aaa_max |-> IF mis # <<>> THEN int_mean_std(mis, 1) ELSE 380]]

\* detailed_delta_analysis.main after the extraction loop:
\* analyze_actual_delta_distribution takes statistics.mean of the AA deltas
\* without testing for emptiness, then recommend_based_on_real_data runs.
detailed_delta_analysis_main ==
    /\ cpc = "ready"
    /\ extractor \in {"none", "detailed"}
    /\ LET rec == recommend_based_on_real_data(aa_correct, aa_misdetected)
       IN result' = IF aa_correct = <<>>
                    THEN Raised("detailed", "analyze_actual_delta_distribution", "StatisticsError")
                    ELSE IF rec.raises
                    THEN Raised("detailed", "recommend_based_on_real_data", "StatisticsError")
                    ELSE Completed("detailed", rec.outcome)
    /\ cpc' = "done"
    /\ UNCHANGED <<mvars, evars, svars>>

ScriptMain ==
    \/ delta_analysis_main
    \/ dual_range_analysis_main
    \/ proper_dual_range_analysis_main
    \/ detailed_delta_analysis_main

\* A corpus is listed and read, then the script's main goes on with the sets.
ExtractNext ==
    \/ ListDir
    \/ ProcessFile
    \/ ProcessAAFile
    \/ StartAAAFiles
    \/ ProcessAAAFile
    \/ ReturnSets
    \/ ScriptMain

ExtractSpec == ExtractInit /\ [][ExtractNext]_vars

\* Sample values for the calibration functions applied to sets of any content.
AAValues == {-10, 5, 6}
MisValues == {-7, 6, 280}
AAAValues == {8, 290}
FailedValues == {3}

SeqsUpTo(S, n) == UNION { [1..k -> S] : k \in 0..n }

\* The worked example: correct AA deltas and AA-as-AAA misdetection deltas.
ExampleAA == <<-10, -5, 0, 5, 10>>
ExampleMis == <<280, 300, 320>>

\* Correct AA sets of 21 samples, the least size at which the 90th, 95th and
\* 99th percentile indexes (18, 19 and 20) differ: 18 small deltas and three
\* larger ones, in file order.
LongAASets == { [i \in 1..18 |-> 1] \o t : t \in [1..3 -> {-20, 30, 40}] }

\* Misdetection deltas on either side of each of those percentiles.
GradeMisValues == {-10, 20, 25, 30, 35, 40, 45}

\* Correct AAA sets of 20 samples, the least size at which the lower index of
\* the 95% range (0) and of the 90% range (1) differ: nineteen deltas of 300
\* and one other, read first or last.
LongAAASets ==
    { <<v>> \o [i \in 1..19 |-> 300] : v \in {5, 8, 290} }
    \cup { [i \in 1..19 |-> 300] \o <<v>> : v \in {5, 8, 290} }

\* Deltas beyond the limits the firmware recommendation clamps to
\* ([-100, 100] for AA, [200, 500] for AAA).
FarAAValues == {-150, 120, 150}
FarAAAValues == {150, 600}

\* Correct AA sets of 101 samples, the least size at which the index of the
\* 99th percentile (99) is not the last: a hundred deltas of 1 and one other.
HundredAASets == { [i \in 1..100 |-> 1] \o <<v>> : v \in {1, -100, 200} }

\* Misdetection deltas between and beyond those.
FarMisValues == {150, -250}

CalibInit ==
    /\ \/ /\ aa_correct \in SeqsUpTo(AAValues, MaxSamples)
          /\ aa_misdetected \in SeqsUpTo(MisValues, MaxSamples)
          /\ aaa_correct \in SeqsUpTo(AAAValues, MaxSamples)
          /\ aaa_failed \in SeqsUpTo(FailedValues, MaxSamples)
       \/ /\ aa_correct = ExampleAA
          /\ aa_misdetected = ExampleMis
          /\ aaa_correct = <<>>
          /\ aaa_failed = <<>>
       \/ /\ aa_correct \in LongAASets
          /\ aa_misdetected \in SeqsUpTo(GradeMisValues, MaxSamples)
          /\ aaa_correct = <<>>
          /\ aaa_failed = <<>>
       \/ /\ aa_correct \in SeqsUpTo(AAValues, MaxSamples)
          /\ aa_misdetected = <<>>
          /\ aaa_correct \in LongAAASets
          /\ aaa_failed = <<>>
       \/ /\ aa_correct \in SeqsUpTo(FarAAValues, MaxSamples)
          /\ aa_misdetected = <<>>
          /\ aaa_correct \in SeqsUpTo(FarAAAValues, MaxSamples)
          /\ aaa_failed = <<>>
       \/ /\ aa_correct \in HundredAASets
          /\ aa_misdetected \in SeqsUpTo(FarMisValues, MaxSamples)
          /\ aaa_correct = <<>>
          /\ aaa_failed = <<>>
    /\ cpc = "ready"
    /\ result = NoResult
    /\ MonitorIdle /\ ExtractIdle

CalibSpec == CalibInit /\ [][ScriptMain]_vars

---------------------------------------------------------------------------
(* Claims about the calibration scripts *)

SampleSets == {aa_correct, aa_misdetected, aaa_correct, aaa_failed}

\* C8: a sample set of exactly one element raises no error in any calibration
\* path: with AA data present and some input set of size 1,
\* dual_range_analysis, proper_dual_range_analysis and
\* detailed_delta_analysis all complete normally.
C8_SingletonCompletes ==
    (/\ cpc = "done"
     /\ result.script \in {"dual", "proper", "detailed"}
     /\ aa_correct # <<>>
     /\ \E s \in SampleSets : Len(s) = 1)
    => result.status = "ok"

\* The script that ran declined to calibrate.
RefusedToCalibrate ==
    IF result.script = "delta" THEN result.outcome.recommendation.refused
    ELSE result.outcome.refused

\* C9: when the AA correct-detection set is empty, each of the four mains
\* terminates normally, having refused to calibrate.
C9_EmptyAARefused ==
    (cpc = "done" /\ aa_correct = <<>>)
    => (result.status = "ok" /\ RefusedToCalibrate)

\* The number of correct AA samples whose |delta| is below v, and at most v.
AABelow(v) == Cardinality({i \in 1..Len(aa_correct) : abs(aa_correct[i]) < v})
AAAtMost(v) == Cardinality({i \in 1..Len(aa_correct) : abs(aa_correct[i]) <= v})

\* v is the value of rank floor(0.99 * n) (counted from 0) among the |delta|
\* of the correct AA samples.
IsP99(v) ==
    LET idx == (99 * Len(aa_correct)) \div 100
    IN AABelow(v) <= idx /\ idx < AAAtMost(v)

\* m is the least |delta| among the AA misdetections.
IsMinMis(m) ==
    /\ \E i \in 1..Len(aa_misdetected) : abs(aa_misdetected[i]) = m
    /\ \A i \in 1..Len(aa_misdetected) : m <= abs(aa_misdetected[i])

\* C10: recommend_optimal_threshold on non-empty AA and misdetection sets
\* declares the separation clear exactly when the 99th percentile of |delta|
\* over correct AA is strictly below the least |delta| of the misdetections;
\* the threshold is then floor((p99 + minMis) / 2), with
\* p99 <= threshold < minMis.  For [-10,-5,0,5,10] against [280,300,320]:
\* p99 = 10, minMis = 280, clear, threshold 145.
C10_ClearSeparationThreshold ==
    (/\ cpc = "done"
     /\ result.script = "delta"
     /\ aa_correct # <<>>
     /\ aa_misdetected # <<>>)
    => LET r == result.outcome.recommendation
       IN /\ result.status = "ok"
          /\ ~r.refused
          /\ IsP99(r.p99)
          /\ IsMinMis(r.misdetection_min)
          /\ (r.separation = "clear") <=> (r.p99 < r.misdetection_min)
          /\ r.separation \in {"clear", "overlap"}
          /\ r.separation = "clear" =>
                /\ 2 * r.optimal <= r.p99 + r.misdetection_min
                /\ r.p99 + r.misdetection_min < 2 * r.optimal + 2
                /\ r.p99 <= r.optimal
                /\ r.optimal < r.misdetection_min
          /\ (aa_correct = ExampleAA /\ aa_misdetected = ExampleMis) =>
                /\ r.p99 = 10
                /\ r.misdetection_min = 280
                /\ r.separation = "clear"
                /\ r.optimal = 145

C10_Witness ==
    /\ cpc = "done"
    /\ result.script = "delta"
    /\ aa_correct = ExampleAA
    /\ aa_misdetected = ExampleMis
    /\ result.outcome.recommendation.separation = "clear"
    /\ result.outcome.recommendation.optimal = 145

\* v is the value of rank floor(num/den * n) (counted from 0) among the
\* |delta| of the correct AA samples.
IsAARank(v, num, den) ==
    LET idx == (num * Len(aa_correct)) \div den
    IN AABelow(v) <= idx /\ idx < AAAtMost(v)

\* C11: the grade of recommend_optimal_threshold is HIGH with threshold p99
\* when the least misdetection magnitude is strictly beyond p99, MEDIUM with
\* threshold p95 when it is strictly beyond p95 but not beyond p99, LOW with
\* threshold p90 otherwise; with no misdetections the grade is MEDIUM and
\* nothing is raised; HIGH goes exactly with 'CLEAR THRESHOLD FOUND'.
C11_ConfidenceGrade ==
    (/\ cpc = "done"
     /\ result.script = "delta"
     /\ aa_correct # <<>>)
    => LET r == result.outcome.recommendation
           m == r.misdetection_min
       IN /\ result.status = "ok"
          /\ ~r.refused
          /\ IsAARank(r.p90, 90, 100)
          /\ IsAARank(r.p95, 95, 100)
          /\ IsAARank(r.p99, 99, 100)
          /\ r.confidence \in {"HIGH", "MEDIUM", "LOW"}
          /\ aa_misdetected = <<>> => r.confidence = "MEDIUM"
          /\ aa_misdetected # <<>> =>
                /\ IsMinMis(m)
                /\ m > r.p99 => (r.confidence = "HIGH" /\ r.recommended = r.p99)
                /\ (m > r.p95 /\ m <= r.p99) =>
                       (r.confidence = "MEDIUM" /\ r.recommended = r.p95)
                /\ m <= r.p95 => (r.confidence = "LOW" /\ r.recommended = r.p90)
          /\ (r.confidence = "HIGH") <=> (r.separation = "clear")

\* The MEDIUM grade by evidence: misdetections between distinct p95 and p99.
C11_Witness ==
    /\ cpc = "done"
    /\ result.script = "delta"
    /\ aa_correct # <<>>
    /\ aa_misdetected # <<>>
    /\ result.outcome.recommendation.confidence = "MEDIUM"
    /\ result.outcome.recommendation.p90 < result.outcome.recommendation.p95
    /\ result.outcome.recommendation.p95 < result.outcome.recommendation.p99
    /\ result.outcome.recommendation.recommended = result.outcome.recommendation.p95

\* C12: with no correct AAA sample and at least two correct AA samples, the
\* two-sided calibrators (recommend_dual_ranges, recommend_optimal_dual_ranges)
\* complete and recommend the theoretical AAA range [250, 380], whatever the
\* misdetection sets hold.
C12_TheoreticalFallback ==
    (/\ cpc = "done"
     /\ result.script \in {"dual", "proper"}
     /\ aaa_correct = <<>>
     /\ Len(aa_correct) > 1)
    => /\ result.status = "ok"
       /\ result.outcome.aaa_min = 250
       /\ result.outcome.aaa_max = 380

\* recommend_dual_ranges does fall back to [250, 380] on every such input.
C12_DualFallsBack ==
    (/\ cpc = "done"
     /\ result.script = "dual"
     /\ aaa_correct = <<>>
     /\ aa_correct # <<>>)
    => /\ result.status = "ok"
       /\ result.outcome.aaa_min = 250
       /\ result.outcome.aaa_max = 380

\* C13: whenever recommend_optimal_dual_ranges declares 'CLEAN SEPARATION',
\* the recommended AA range lies strictly below the recommended AAA range
\* (aa_95_upper < aaa_95_lower), and the gap size printed is positive and is
\* the distance between the two boundaries that were compared.
C13_CleanMeansDisjoint ==
    (/\ cpc = "done"
     /\ result.script = "proper"
     /\ result.status = "ok"
     /\ ~result.outcome.refused
     /\ result.outcome.separation = "clean")
    => /\ result.outcome.aa_max < result.outcome.aaa_min
       /\ result.outcome.gap_size > 0
       /\ result.outcome.gap_size
            = result.outcome.aaa_90[1] - result.outcome.aa_99[2]

\* What the verdict does establish: the boundaries compared are the 99% AA
\* upper and the 90% AAA lower, and the gap is their positive distance.
C13_GapOfComparedBoundaries ==
    (/\ cpc = "done"
     /\ result.script = "proper"
     /\ result.status = "ok"
     /\ ~result.outcome.refused
     /\ result.outcome.separation = "clean")
    => /\ result.outcome.aa_99[2] < result.outcome.aaa_90[1]
       /\ result.outcome.aa_max < result.outcome.aaa_90[1]
       /\ result.outcome.gap_size > 0
       /\ result.outcome.gap_size
            = result.outcome.aaa_90[1] - result.outcome.aa_99[2]

---------------------------------------------------------------------------
(* Claims about the extraction as a whole *)

\* How many elements of s equal v.
CountIn(s, v) == Cardinality({i \in 1..Len(s) : s[i] = v})

\* How many matching lines with delta v a file offers to the extractors: those
\* of a readable file whose name carries a class hint.
Offered(f, v) ==
    IF f.readable /\ HintOf(f.name) # "none"
    THEN Cardinality({k \in 1..Len(f.lines) : f.lines[k].matches /\ f.lines[k].delta = v})
    ELSE 0

RECURSIVE OfferedBy(_, _)
OfferedBy(fs, v) ==
    IF fs = <<>> THEN 0 ELSE Offered(Head(fs), v) + OfferedBy(Tail(fs), v)

\* The '.log' files of the directory, whatever the extractor made of them.
Corpus ==
    LET IsLogName(f) == EndsWith(f.name, s_log)
    IN SelectSeq(listing, IsLogName)

DeltaValues ==
    UNION { {f.lines[k].delta : k \in 1..Len(f.lines)} : f \in Files }

\* C14: after a run of an extractor the four sets partition the extracted
\* samples: each matching line of a readable, class-hinted file has put its
\* delta once into one set (value by value, the four sets together hold what
\* those lines offered), and an unhinted file has put nothing anywhere.
C14_SetsPartitionSamples ==
    (epc = "done" /\ extractor \in {"delta", "dual", "proper"})
    => \A v \in DeltaValues :
          CountIn(aa_correct, v) + CountIn(aa_misdetected, v)
            + CountIn(aaa_correct, v) + CountIn(aaa_failed, v)
          = OfferedBy(Corpus, v)

\* A run over a hinted file and an unhinted file that both hold matching lines.
C14_Witness ==
    /\ epc = "done"
    /\ extractor = "delta"
    /\ Len(aa_correct) + Len(aa_misdetected) + Len(aaa_correct) + Len(aaa_failed) > 1
    /\ \E i \in 1..Len(listing) :
          /\ EndsWith(listing[i].name, s_log)
          /\ HintOf(listing[i].name) = "none"
          /\ listing[i].readable
          /\ \E k \in 1..Len(listing[i].lines) : listing[i].lines[k].matches

\* The test type extractor ex gives a file of the directory.
TypeFor(ex, name) ==
    IF ~EndsWith(name, s_log) THEN "skip"
    ELSE IF ex = "proper" THEN test_type_proper(name)
    ELSE IF ex = "detailed" THEN (IF Contains(name, s_aa_) THEN "aa" ELSE "skip")
    ELSE test_type_of(name)

\* The four sets extractor ex returns for a directory fs in which every file
\* can be read.
RECURSIVE SetsFrom(_, _)
SetsFrom(ex, fs) ==
    IF fs = <<>> THEN << <<>>, <<>>, <<>>, <<>> >>
    ELSE LET f == Head(fs)
             tt == TypeFor(ex, f.name)
             rest == SetsFrom(ex, Tail(fs))
         IN IF tt = "aa"
            THEN <<Appended(f, KLVR_AA, TRUE) \o rest[1],
                   Appended(f, KLVR_AA, FALSE) \o rest[2], rest[3], rest[4]>>
            ELSE IF tt = "aaa"
            THEN <<rest[1], rest[2], Appended(f, KLVR_AAA, TRUE) \o rest[3],
                   Appended(f, KLVR_AAA, FALSE) \o rest[4]>>
            ELSE rest

\* The directory without the files that cannot be read.
WithoutUnreadable ==
    LET CanRead(f) == f.readable
    IN SelectSeq(listing, CanRead)

\* C15: when opening or reading a file raises, the extractor goes on and
\* returns exactly the four sets of the corpus without that file: the file
\* gives none of its lines, and the samples of the other files are intact.
C15_UnreadableFileSkipped ==
    epc = "done"
    => <<aa_correct, aa_misdetected, aaa_correct, aaa_failed>>
          = SetsFrom(extractor, WithoutUnreadable)

\* A finished run over an unreadable test file and a readable one that gave
\* samples.
C15_Witness ==
    /\ epc = "done"
    /\ extractor \in {"delta", "dual"}
    /\ aa_correct # <<>>
    /\ \E i \in 1..Len(listing) :
          /\ ~listing[i].readable
          /\ TypeFor(extractor, listing[i].name) # "skip"
    /\ \E i \in 1..Len(listing) :
          /\ listing[i].readable
          /\ TypeFor(extractor, listing[i].name) # "skip"

---------------------------------------------------------------------------
(* The percentile estimator of the percentile tables *)

\* Percentile points in tenths of a percent: those of the tables of
\* analyze_battery_type_ranges and analyze_actual_delta_distribution
\* (1 ... 99, 99.5, 99.9) and the two ends 0 and 100.
PercentilePoints == {0, 10, 50, 100, 250, 500, 750, 900, 950, 990, 995, 999, 1000}

PercentileInit ==
    /\ aa_correct \in (SeqsUpTo(AAValues, MaxSamples) \ {<<>>}) \cup LongAASets
    /\ aa_misdetected = <<>>
    /\ aaa_correct = <<>>
    /\ aaa_failed = <<>>
    /\ cpc = "ready"
    /\ result = NoResult
    /\ MonitorIdle /\ ExtractIdle

\* One turn of the percentile loop: idx = int(p/100 * len(aa_sorted)),
\* clamped to the last index, value = aa_sorted[idx].
PercentileEntry ==
    /\ cpc = "ready"
    /\ \E p \in PercentilePoints :
          result' = Completed("percentile",
                        [p |-> p, value |-> at_clamped(aa_correct, p, 1000)])
    /\ cpc' = "done"
    /\ UNCHANGED <<mvars, evars, svars>>

PercentileSpec == PercentileInit /\ [][PercentileEntry]_vars

---------------------------------------------------------------------------
(* The percentile lookups that apply no clamp *)

\* The levels of the unclamped lookups, in hundredths of a percent: 0.05
\* (detailed_delta_analysis, lower end of 99.9%), 0.5, 1, 2.5, 5, 90, 95,
\* 97.5, 99, 99.5 and 99.9.
UnclampedLevels == {5, 50, 100, 250, 500, 9000, 9500, 9750, 9900, 9950, 9990}

\* Sizes of sample sets beyond the small ones: around the sizes at which
\* the index of the 99%, 99.5% and 99.9% levels first leaves n - 1.
LargeSizes == {99, 100, 101, 199, 200, 201, 999, 1000, 1001}

\* Variant of the index that rounds the product up.
percentile_index_ceil(n, num, den) == (num * n + den - 1) \div den

\* int(level * len(s)): the integer part of the product.
percentile_index(n, num, den) == (num * n) \div den

LookupInit ==
    /\ aa_correct \in (SeqsUpTo(AAValues, MaxSamples) \ {<<>>}) \cup LongAASets
                      \cup { [i \in 1..n |-> 1] : n \in LargeSizes }
    /\ aa_misdetected = <<>>
    /\ aaa_correct = <<>>
    /\ aaa_failed = <<>>
    /\ cpc = "ready"
    /\ result = NoResult
    /\ MonitorIdle /\ ExtractIdle

\* aa_sorted[int(level * len(aa_sorted))]: IndexError when the index is not
\* one of the list.
UnclampedLookup ==
    /\ cpc = "ready"
    /\ \E level \in UnclampedLevels :
          LET idx == percentile_index(Len(aa_correct), level, 10000)
          IN result' =
               IF idx < Len(aa_correct)
               THEN Completed("lookup",
                        [level |-> level, idx |-> idx,
                         value |-> sorted(aa_correct)[idx + 1]])
               ELSE [Raised("lookup", "percentile lookup", "IndexError")
                        EXCEPT !.outcome = [level |-> level, idx |-> idx, value |-> 0]]
    /\ cpc' = "done"
    /\ UNCHANGED <<mvars, evars, svars>>

LookupSpec == LookupInit /\ [][UnclampedLookup]_vars

---------------------------------------------------------------------------
(* The distribution tables of the calibrators *)

\* ranges of analyze_battery_type_ranges for the AA deltas.
proper_aa_ranges ==
    << <<-100, -50>>, <<-50, -20>>, <<-20, -5>>, <<-5, 5>>, <<5, 20>>,
       <<20, 50>>, <<50, 100>> >>

\* aaa_ranges of analyze_battery_type_ranges.
proper_aaa_ranges ==
    << <<0, 100>>, <<100, 200>>, <<200, 250>>, <<250, 300>>, <<300, 350>>,
       <<350, 400>>, <<400, 500>>, <<500, 1000>> >>

\* ranges of analyze_actual_delta_distribution.
detailed_ranges ==
    << <<-2100, -100>>, <<-100, -50>>, <<-50, -20>>, <<-20, -5>>, <<-5, 5>>,
       <<5, 20>>, <<20, 50>>, <<50, 100>>, <<100, 500>>, <<500, 3000>> >>

\* Variant of the membership test with both ends included.
in_range_closed(d, min_val, max_val) == min_val <= d /\ d <= max_val

\* min_val <= d < max_val
in_range(d, min_val, max_val) == min_val <= d /\ d < max_val

\* f"{count / n * 100:.1f}" in tenths of a percent: the nearest tenth, the
\* even one of two equally near.
percentage(count, n) ==
    LET q == (count * 1000) \div n
        r == (count * 1000) % n
    IN IF 2 * r > n \/ (2 * r = n /\ q % 2 = 1) THEN q + 1 ELSE q

\* The loop over the ranges: the count of each and, for a count above 0, the
\* line printed with its percentage.
histogram(s, ranges) ==
    [k \in 1..Len(ranges) |->
        LET count == Cardinality({i \in 1..Len(s) :
                                     in_range(s[i], ranges[k][1], ranges[k][2])})
        IN [min_val |-> ranges[k][1], max_val |-> ranges[k][2], count |-> count,
            printed |-> count > 0, percentage |-> percentage(count, Len(s))]]

\* small_deltas, medium_deltas, large_deltas of analyze_delta_patterns.
delta_distribution(aa) ==
    LET a == AbsAll(aa)
        small == Cardinality({i \in 1..Len(a) : a[i] <= 50})
        medium == Cardinality({i \in 1..Len(a) : 50 < a[i] /\ a[i] <= 100})
        large == Cardinality({i \in 1..Len(a) : a[i] > 100})
    IN << [count |-> small, percentage |-> percentage(small, Len(a))],
          [count |-> medium, percentage |-> percentage(medium, Len(a))],
          [count |-> large, percentage |-> percentage(large, Len(a))] >>

\* Deltas at the ends of the ranges, between them and beyond them.
HistAAValues == {-2101, -100, 5, 50, 100, 3000}
HistAAAValues == {-1, 100, 300, 1000}

HistogramInit ==
    /\ aa_correct \in SeqsUpTo(HistAAValues, MaxSamples) \ {<<>>}
    /\ aa_misdetected = <<>>
    /\ aaa_correct \in SeqsUpTo(HistAAAValues, MaxSamples) \ {<<>>}
    /\ aaa_failed = <<>>
    /\ cpc = "ready"
    /\ result = NoResult
    /\ MonitorIdle /\ ExtractIdle

\* One of the distribution tables is computed and printed.
Distribution ==
    /\ cpc = "ready"
    /\ \/ result' = Completed("histogram",
                        [of |-> "aa", n |-> Len(aa_correct), ranges |-> proper_aa_ranges,
                         buckets |-> histogram(aa_correct, proper_aa_ranges)])
       \/ result' = Completed("histogram",
                        [of |-> "aaa", n |-> Len(aaa_correct), ranges |-> proper_aaa_ranges,
                         buckets |-> histogram(aaa_correct, proper_aaa_ranges)])
       \/ result' = Completed("histogram",
                        [of |-> "aa", n |-> Len(aa_correct), ranges |-> detailed_ranges,
                         buckets |-> histogram(aa_correct, detailed_ranges)])
       \/ result' = Completed("split",
                        [of |-> "aa", n |-> Len(aa_correct),
                         buckets |-> delta_distribution(aa_correct)])
    /\ cpc' = "done"
    /\ UNCHANGED <<mvars, evars, svars>>

HistogramSpec == HistogramInit /\ [][Distribution]_vars

---------------------------------------------------------------------------
(* The monitor's lines as text, and the extractors' regular expression *)

\* Text is a sequence of characters.  The characters outside ASCII that the
\* monitor prints are written <ok> (U+2705), <alarm> (U+1F6A8), <info>
\* (U+1F4CA), <micro> (U+1F52C), <inbox> (U+1F4E5), <cross> (U+274C),
\* <delta> (U+0394) and <arrow> (U+2192): one character each.
DigitChars == <<"0", "1", "2", "3", "4", "5", "6", "7", "8", "9">>

RECURSIVE digits(_)
digits(n) ==
    IF n < 10 THEN <<DigitChars[n + 1]>>
    ELSE digits(n \div 10) \o <<DigitChars[(n % 10) + 1]>>

\* str(n) of an int.
str(n) == IF n < 0 THEN <<"-">> \o digits(-n) ELSE digits(n)

\* f"{n:wd}": the digits, right-aligned in w columns when shorter.
format_d(n, w) == [i \in 1..(w - Len(str(n))) |-> " "] \o str(n)

\* f"{s:w}": the string, left-aligned in w columns when shorter.
format_s(t, w) == t \o [i \in 1..(w - Len(t)) |-> " "]

\* datetime.now().strftime("%H:%M:%S"): eight characters, digits and colons.
timestamp == <<"1", "2", ":", "0", "0", ":", "0", "0">>

\* The status of a summary line with its sign.
status_text(status) ==
    CASE status = "MISDETECTION!" -> <<"<alarm>", " ", "M", "I", "S", "D", "E", "T", "E", "C",
        "T", "I", "O", "N", "!">>
      [] status = "All correct" -> <<"<ok>", " ", "A", "l", "l", " ", "c", "o", "r", "r", "e",
          "c", "t">>
      [] status = "DETECTION FAILED!" -> <<"<alarm>", " ", "D", "E", "T", "E", "C", "T", "I",
          "O", "N", " ", "F", "A", "I", "L", "E", "D", "!">>
      [] status = "All detected" -> <<"<ok>", " ", "A", "l", "l", " ", "d", "e", "t", "e", "c",
          "t", "e", "d">>
      [] OTHER -> <<>>

\* The f-strings of format_detection_line and of main, by kind of line.
text_of(l) ==
    CASE l.kind = "summary" ->
           <<"#">> \o format_d(l.reading_num, 3) \o <<" ">> \o timestamp \o
           (CASE l.tag = "Connection failed" -> <<" ", "|", " ", "<cross>", " ", "C", "o", "n",
               "n", "e", "c", "t", "i", "o", "n", " ", "f", "a", "i", "l", "e", "d">>
              [] l.tag = "AA TEST" ->
                   <<" ", "|", " ", "[", "A", "A", " ", "T", "E", "S", "T", "]", " ", "T", "o",
                       "t", "a", "l", ":", " ">> \o format_d(l.total, 2) \o
                   <<" ", "|", " ", "C", "o", "r", "r", "e", "c", "t", " ", "A", "A", ":",
                       " ">> \o format_d(l.first, 2) \o
                   <<" ", "|", " ", "M", "i", "s", "d", "e", "t", "e", "c", "t", "e", "d", " ",
                       "a", "s", " ", "A", "A", "A", ":", " ">> \o format_d(l.second, 2) \o
                   <<" ", "|", " ">> \o status_text(l.status)
              [] l.tag = "AAA TEST" ->
                   <<" ", "|", " ", "[", "A", "A", "A", " ", "T", "E", "S", "T", "]", " ", "T",
                       "o", "t", "a", "l", ":", " ">> \o format_d(l.total, 2) \o
                   <<" ", "|", " ", "D", "e", "t", "e", "c", "t", "e", "d", " ", "A", "A", "A",
                       ":", " ">> \o format_d(l.first, 2) \o
                   <<" ", "|", " ", "F", "a", "i", "l", "e", "d", " ", "t", "o", " ", "d", "e",
                       "t", "e", "c", "t", ":", " ">> \o format_d(l.second, 2) \o
                   <<" ", "|", " ">> \o status_text(l.status)
              [] OTHER ->
                   <<" ", "|", " ", "[", "B", "O", "T", "H", "]", " ", "T", "o", "t", "a", "l",
                       ":", " ">> \o format_d(l.total, 2) \o
                   <<" ", "|", " ", "A", "A", ":", " ">> \o format_d(l.first, 2) \o
                   <<" ", "|", " ", "A", "A", "A", ":", " ">> \o format_d(l.second, 2))
      [] l.kind = "voltage" ->
           <<" ", " ", " ", " ">> \o
           <<CASE l.indicator = "ok" -> "<ok>"
               [] l.indicator = "alarm" -> "<alarm>"
               [] OTHER -> "<info>">> \o
           <<" ", "S", "L", "O", "T", " ">> \o format_d(l.slot, 2) \o <<":", " ">> \o
           format_s(l.detected_type, 8) \o
           <<" ", "|", " ", "A", "A", "A", "_", "O", "N", "=">> \o format_d(l.voltageAAA_mv, 4) \o
           <<"m", "V", " ", "|", " ", "A", "A", "A", "_", "O", "F", "F",
               "=">> \o format_d(l.voltageAA_mv, 4) \o
           <<"m", "V", " ", "|", " ", "<delta>", "=">> \o format_d(l.voltageDelta_mv,
               4) \o <<"m", "V">>
      [] l.kind = "alert" ->
           <<" ", " ", " ", " ">> \o <<"<alarm>", "<alarm>", " ">> \o
           (CASE l.text = "AA MISDETECTION ALERT!" ->
                   <<"A", "A", " ", "M", "I", "S", "D", "E", "T", "E", "C", "T", "I", "O", "N",
                       " ", "A", "L", "E", "R", "T", "!", " ">> \o str(l.count) \o <<" ", "A",
                       "A", " ", "b", "a", "t", "t", "e", "r", "i", "e", "s", " ", "d", "e", "t",
                       "e", "c", "t", "e", "d", " ", "a", "s", " ", "A", "A", "A", "!">>
              [] l.text = "AAA DETECTION FAILURE!" ->
                   <<"A", "A", "A", " ", "D", "E", "T", "E", "C", "T", "I", "O", "N", " ", "F",
                       "A", "I", "L", "U", "R", "E", "!", " ">> \o str(l.count) \o <<" ", "A",
                       "A", "A", " ", "b", "a", "t", "t", "e", "r", "i", "e", "s", " ", "n", "o",
                       "t", " ", "d", "e", "t", "e", "c", "t", "e", "d", "!">>
              [] OTHER ->
                   <<"D", "E", "T", "E", "C", "T", "I", "O", "N", " ", "I", "S", "S", "U", "E",
                       "!", " ">> \o str(l.count) \o <<" ", "p", "r", "o", "b", "l", "e", "m",
                       "a", "t", "i", "c", " ", "d", "e", "t", "e", "c", "t", "i", "o", "n", "s",
                       "!">>)
      [] l.kind = "details" ->
           <<" ", " ", " ", " ">> \o <<"<micro>", " ", "S", "L", "O", "T",
               " ">> \o str(l.slot) \o <<" ", "D", "E", "T", "A", "I", "L", "S", ":", " ", "D",
               "e", "t", "e", "c", "t", "e", "d", "=">> \o l.detected_type \o
           <<" ", "|", " ", "A", "A", "A", "_", "O", "N", "=">> \o str(l.voltageAAA_mv) \o
           <<"m", "V", " ", "|", " ", "A", "A", "A", "_", "O", "F", "F",
               "=">> \o str(l.voltageAA_mv) \o
           <<"m", "V", " ", "|", " ", "<delta>", "=">> \o str(l.voltageDelta_mv) \o <<"m", "V">>
      [] OTHER ->
           <<" ", " ", " ", " ">> \o <<"<inbox>", " ", "B", "A", "T", "T", "E", "R", "Y", " ",
               "C", "O", "U", "N", "T", ":", " ">> \o str(l.previous) \o <<" ", "<arrow>",
               " ">> \o str(l.current)

\* What log_file.write(line + "\n") leaves in the file for the lines ls.
RECURSIVE content_of(_)
content_of(ls) ==
    IF ls = <<>> THEN <<>>
    ELSE text_of(Head(ls)) \o <<"\n">> \o content_of(Tail(ls))

\* \s and \d of the re module, on the characters that occur.
WhiteSpace == {" ", "\n", "\t"}
DigitSet == {DigitChars[i] : i \in 1..10}

\* The elements of a pattern: a choice among literals, tried in order, or
\* a greedy repetition of a character class (most = 0: unbounded).
lit(t) == [kind |-> "alt", alts |-> <<t>>, class |-> {}, least |-> 0, most |-> 0]
alt(ts) == [kind |-> "alt", alts |-> ts, class |-> {}, least |-> 0, most |-> 0]
rep(class, least, most) ==
    [kind |-> "rep", alts |-> <<>>, class |-> class, least |-> least, most |-> most]

\* (<ok>|<alarm>)\s+SLOT\s+\d+:\s+(KLVR-AA|KLVR-AAA)\s+\|\s+AAA_ON=\d+mV
\* \s+\|\s+AAA_OFF=\d+mV\s+\|\s+<delta>=\s*(-?\d+)mV
pattern ==
    << alt(<< <<"<ok>">>, <<"<alarm>">> >>), rep(WhiteSpace, 1, 0),
       lit(<<"S", "L", "O", "T">>), rep(WhiteSpace, 1, 0), rep(DigitSet, 1, 0), lit(<<":">>),
       rep(WhiteSpace, 1, 0), alt(<<KLVR_AA, KLVR_AAA>>), rep(WhiteSpace, 1, 0),
       lit(<<"|">>), rep(WhiteSpace, 1, 0),
       lit(<<"A", "A", "A", "_", "O", "N", "=">>), rep(DigitSet, 1, 0), lit(<<"m", "V">>),
       rep(WhiteSpace, 1, 0), lit(<<"|">>), rep(WhiteSpace, 1, 0),
       lit(<<"A", "A", "A", "_", "O", "F", "F", "=">>), rep(DigitSet, 1, 0), lit(<<"m", "V">>),
       rep(WhiteSpace, 1, 0), lit(<<"|">>), rep(WhiteSpace, 1, 0),
       lit(<<"<delta>", "=">>), rep(WhiteSpace, 0, 0),
       rep({"-"}, 0, 1), rep(DigitSet, 1, 0), lit(<<"m", "V">>) >>

\* Where the groups 2 and 3 of the pattern begin and end, by element.
group2 == <<8, 9>>
group3 == <<26, 28>>

\* The literal t stands in the text at pos.
StandsAt(text, pos, t) ==
    /\ pos + Len(t) - 1 <= Len(text)
    /\ \A i \in 1..Len(t) : text[pos + i - 1] = t[i]

\* The number of characters of the class that follow each other from pos.
RunLength(text, pos, class) ==
    CHOOSE n \in 0..(Len(text) - pos + 1) :
        /\ \A i \in 0..(n - 1) : text[pos + i] \in class
        /\ (pos + n > Len(text) \/ text[pos + n] \notin class)

\* re.match of the elements k.. of the pattern at pos: the positions at
\* which the elements begin, then the position after the match; <<>> when
\* there is no match.  A choice takes its first alternative with which the
\* rest matches (first_alt tries them from the j-th on), a repetition the
\* longest run with which the rest matches (longest_rep tries n characters,
\* then fewer).  The rest is matched once for each try: r ranges over the
\* one result.
RECURSIVE re_match(_, _, _)
RECURSIVE first_alt(_, _, _, _)
RECURSIVE longest_rep(_, _, _, _)

first_alt(k, text, pos, j) ==
    IF j > Len(pattern[k].alts) THEN <<>>
    ELSE IF ~StandsAt(text, pos, pattern[k].alts[j]) THEN first_alt(k, text, pos, j + 1)
    ELSE CHOOSE m \in { IF r # <<>> THEN <<pos>> \o r ELSE first_alt(k, text, pos, j + 1) :
                        r \in {re_match(k + 1, text, pos + Len(pattern[k].alts[j]))} } : TRUE

longest_rep(k, text, pos, n) ==
    IF n < pattern[k].least THEN <<>>
    ELSE CHOOSE m \in { IF r # <<>> THEN <<pos>> \o r ELSE longest_rep(k, text, pos, n - 1) :
                        r \in {re_match(k + 1, text, pos + n)} } : TRUE

re_match(k, text, pos) ==
    IF k > Len(pattern) THEN <<pos>>
    ELSE IF pattern[k].kind = "alt" THEN first_alt(k, text, pos, 1)
    ELSE CHOOSE m \in { longest_rep(k, text, pos,
                            IF pattern[k].most > 0 /\ run > pattern[k].most
                            THEN pattern[k].most ELSE run) :
                        run \in {RunLength(text, pos, pattern[k].class)} } : TRUE

\* int(t) of an optional sign and digits.
RECURSIVE int_of_digits(_)
int_of_digits(t) ==
    IF t = <<>> THEN 0
    ELSE 10 * int_of_digits(SubSeq(t, 1, Len(t) - 1))
         + (CHOOSE d \in 0..9 : DigitChars[d + 1] = t[Len(t)])

int(t) == IF t[1] = "-" THEN -int_of_digits(Tail(t)) ELSE int_of_digits(t)

\* re.finditer(pattern, content) from pos on: for each match, left to right
\* and without overlap, detected_type = group(2) and delta = int(group(3)).
RECURSIVE re_finditer(_, _)
re_finditer(text, pos) ==
    LET starts == {p \in pos..Len(text) : re_match(1, text, p) # <<>>}
    IN IF starts = {} THEN <<>>
       ELSE CHOOSE found \in
              { <<[detected_type |-> SubSeq(text, m[group2[1]], m[group2[2]] - 1),
                   delta |-> int(SubSeq(text, m[group3[1]], m[group3[2]] - 1))]>>
                \o re_finditer(text, m[Len(m)]) :
                m \in {re_match(1, text, CHOOSE p \in starts : \A q \in starts : p <= q)} } : TRUE

\* Slots of the snapshots that are logged and read back: detected as AA and
\* as AAA, voltages of four digits, of three and of one, zero and negative,
\* deltas of one to four characters; one slot with another label.
RoundTripSlots ==
    { EmptySlot,
      Slot(TRUE, "occupied", TRUE, TRUE, KLVR_AA, TRUE, TRUE, 1400, 1395, 5),
      Slot(TRUE, "occupied", TRUE, TRUE, KLVR_AAA, TRUE, TRUE, 1500, 1200, 300),
      Slot(TRUE, "occupied", TRUE, TRUE, KLVR_AA, TRUE, TRUE, 12000, 1000, -1250),
      Slot(TRUE, "occupied", TRUE, TRUE, KLVR_AA, TRUE, TRUE, 950, 1200, -250),
      Slot(TRUE, "occupied", TRUE, TRUE, KLVR_AAA, TRUE, TRUE, 1300, 0, 1300),
      Slot(TRUE, "occupied", TRUE, TRUE, KLVR_AAA, TRUE, TRUE, -5, 1200, 0),
      Slot(TRUE, "occupied", TRUE, TRUE, s_Unknown, TRUE, TRUE, 1400, 1395, 5) }

RoundTripInit ==
    /\ test_type \in {"aa", "aaa"}
    /\ data \in { Json("object", TRUE, bs) : bs \in [1..NumSlots -> RoundTripSlots] }
              \cup {None}
    /\ pc = "idle" /\ reading_num \in {1, 2}
    /\ last_analysis \in {NoLast, [status |-> "ok", total |-> 0]}
    /\ analysis = NoAnalysis
    /\ out = NoOutput /\ console = <<>> /\ log_file = <<>> /\ disk = <<>>
    /\ log_open = FALSE
    /\ summaries = 0 /\ report = NoReport
    /\ argv = NoArg /\ exit = NotExited /\ logs_dir = FALSE
    /\ misdetections_seen = 0
    /\ ExtractIdle /\ SetsIdle
    /\ cpc = "ready"
    /\ result = NoResult

\* The lines one cycle of the monitor writes for the snapshot, and what the
\* extractors' finditer reads back from them.
WriteAndExtract ==
    /\ cpc = "ready"
    /\ \E o \in {CycleOutput(reading_num, analyze_detection(data, test_type),
                             last_analysis, test_type)} :
       \E content \in {content_of(o.lines)} :
          result' = Completed("roundtrip",
                       [lines |-> o.lines, samples |-> re_finditer(content, 1)])
    /\ cpc' = "done"
    /\ UNCHANGED <<mvars, evars, svars>>

RoundTripSpec == RoundTripInit /\ [][WriteAndExtract]_vars

\* The signed correct AA deltas below v, and at most v.
SignedBelow(v) == Cardinality({i \in 1..Len(aa_correct) : aa_correct[i] < v})
SignedAtMost(v) == Cardinality({i \in 1..Len(aa_correct) : aa_correct[i] <= v})

\* C16: the estimator (value at sorted index floor(p/100 * n), clamped to
\* n-1) gives the least element at p = 0, the greatest at p = 100, and never
\* decreases as p grows.
C16_PercentileEnds ==
    (cpc = "done" /\ result.script = "percentile")
    => LET p == result.outcome.p
           v == result.outcome.value
           n == Len(aa_correct)
           idx == IF (p * n) \div 1000 >= n THEN n - 1 ELSE (p * n) \div 1000
       IN /\ SignedBelow(v) <= idx /\ idx < SignedAtMost(v)
          /\ p = 0 => (SignedBelow(v) = 0 /\ SignedAtMost(v) > 0)
          /\ p = 1000 => (SignedAtMost(v) = n /\ SignedBelow(v) < n)
          /\ \A q \in PercentilePoints :
                q <= p => at_clamped(aa_correct, q, 1000) <= v

\* The clamp at work: p = 100 on an unsorted sequence of distinct values.
C16_Witness ==
    /\ cpc = "done"
    /\ result.script = "percentile"
    /\ result.outcome.p = 1000
    /\ Len(aa_correct) > 1
    /\ aa_correct[1] = result.outcome.value
    /\ aa_correct[Len(aa_correct)] < result.outcome.value

---------------------------------------------------------------------------
(* Determinism of the calibration in the corpus *)

\* What the main of script ex leaves after computing on the four sets.
ScriptResult(ex, sets) ==
    IF ex = "delta"
    THEN Completed("delta",
             [patterns |-> analyze_delta_patterns(sets[1], sets[2]),
              recommendation |-> recommend_optimal_threshold(sets[1], sets[2])])
    ELSE IF ex = "dual"
    THEN (IF recommend_dual_ranges(sets[1], sets[3]).refused
          THEN Raised("dual", "main", "TypeError")
          ELSE Completed("dual", recommend_dual_ranges(sets[1], sets[3])))
    ELSE IF ex = "proper"
    THEN (IF recommend_optimal_dual_ranges(sets[1], sets[2], sets[3]).raises
          THEN Raised("proper", "recommend_optimal_dual_ranges", "StatisticsError")
          ELSE Completed("proper",
                   recommend_optimal_dual_ranges(sets[1], sets[2], sets[3]).outcome))
    ELSE IF sets[1] = <<>>
    THEN Raised("detailed", "analyze_actual_delta_distribution", "StatisticsError")
    ELSE IF recommend_based_on_real_data(sets[1], sets[2]).raises
    THEN Raised("detailed", "recommend_based_on_real_data", "StatisticsError")
    ELSE Completed("detailed", recommend_based_on_real_data(sets[1], sets[2]).outcome)

\* The directory listed in the order pi.
Reordered(pi) == [i \in 1..Len(listing) |-> listing[pi[i]]]

ReadableOf(fs) ==
    LET CanRead(f) == f.readable
    IN SelectSeq(fs, CanRead)

\* C17: the outcome of a calibration script (boundaries, thresholds, grade)
\* is the one it computes from the same files listed in any other order.
C17_OrderIndependent ==
    cpc = "done"
    => \A pi \in Permutations(1..Len(listing)) :
          result = ScriptResult(extractor, SetsFrom(extractor, ReadableOf(Reordered(pi))))

\* A finished run whose correct AA samples came from two files and were read
\* in decreasing order of magnitude.
C17_Witness ==
    /\ cpc = "done"
    /\ extractor = "delta"
    /\ result.status = "ok"
    /\ Len(log_files) = 2
    /\ Len(aa_correct) = 2
    /\ abs(aa_correct[1]) > abs(aa_correct[2])
    /\ Appended(log_files[1], KLVR_AA, TRUE) = <<aa_correct[1]>>

---------------------------------------------------------------------------
(* Claims about the monitor's log and its interruption *)

\* At the end of a completed cycle the lines written to the log for it are
\* the lines printed for it, and they are on disk.
CompletedCycleLogged ==
    pc = "sleep" => (log_file = console /\ console = out.lines /\ disk = log_file)

\* C18: an interruption never loses an entry: after teardown the log holds
\* every line that was shown on the console, in the same order; and at the
\* end of every completed cycle the log lines of the cycle equal its console
\* lines and have been flushed.
C18_LogHoldsWhatWasShown ==
    /\ pc = "stopped" =>
          /\ Len(console) <= Len(disk)
          /\ SubSeq(disk, 1, Len(console)) = console
    /\ CompletedCycleLogged

\* The part about completed cycles alone.
C18_CompletedCycleLogged == CompletedCycleLogged /\ (pc = "stopped" => disk = log_file)

\* main has left the polling loop.
LeftLoop == pc \in {"stopped", "crashed"}

\* main is inside the with block.
InLoop == pc \in {"fetch", "emit", "sleep"}

\* C19: the log is opened once, before the first cycle, and is closed with
\* everything written flushed on every path that leaves the polling loop
\* (interruption during the fetch, during the writing or during the sleep,
\* and an exception alike); it is never written after it was closed and is
\* not open when the process ends.
C19_LogReleasedOnEveryExit ==
    /\ [](InLoop => log_open)
    /\ [](LeftLoop => (~log_open /\ disk = log_file))
    /\ [][(~log_open /\ log_open') => pc = "open"]_vars
    /\ [][~log_open => log_file' = log_file]_vars
    /\ [][LeftLoop => (LeftLoop' /\ ~log_open')]_vars

\* An interruption during the writing of a cycle closed the log with the
\* lines written so far on disk.
C19_Witness ==
    /\ pc = "stopped"
    /\ log_file # <<>>
    /\ Len(log_file) < Len(out.lines)
    /\ disk = log_file
    /\ ~log_open

\* An exception left the loop with lines written: the log is closed too.
C19_WitnessCrash == pc = "crashed" /\ log_file # <<>> /\ disk = log_file /\ ~log_open

\* C20: when the monitor is interrupted, at whatever point of a cycle, it
\* reports the log location and a total reading count equal to the number
\* of cycles whose summary line was written to the log.
C20_TotalCountsLoggedSummaries ==
    pc = "stopped" =>
        /\ report.log = "log_filename"
        /\ report.total = summaries

\* What the reported total does count: the cycles that reached the
\* increment of reading_num; the log holds at most one summary more.
C20_TotalCountsCompletedCycles ==
    pc = "stopped" =>
        /\ report.log = "log_filename"
        /\ report.total = reading_num - 1
        /\ report.total \in {summaries - 1, summaries}
        /\ (Len(log_file) = 0 => report.total = summaries)

---------------------------------------------------------------------------
(* Claims about the monitor's start *)

\* The token spells the mode m in upper or lower case letters.
Spells(token, m) ==
    /\ Len(token) = Len(m)
    /\ \A i \in 1..Len(m) :
         \/ token[i] = m[i]
         \/ m[i] = "a" /\ token[i] = "A"
         \/ m[i] = "b" /\ token[i] = "B"
         \/ m[i] = "o" /\ token[i] = "O"
         \/ m[i] = "t" /\ token[i] = "T"
         \/ m[i] = "h" /\ token[i] = "H"

\* Nothing of the run exists: no logs directory, no log file, no fetch.
NothingStarted ==
    /\ ~logs_dir
    /\ ~log_open /\ log_file = <<>> /\ disk = <<>>
    /\ data = Unbound

\* C21: a test-mode token on the command line is accepted, whatever its
\* case, iff it is one of aa / aaa / both; any other token makes the monitor
\* print a usage message and exit with status 1 before the logs directory or
\* a log file is created and before any fetch; so the polling loop only runs
\* with a test mode in {aa, aaa, both}.
C21_ModeTokenValidated ==
    /\ (argv # NoArg /\ pc # "start") =>
          IF \E m \in {s_aa, s_aaa, s_both} : Spells(argv, m)
          THEN /\ ~exit.exited
               /\ \A m \in {s_aa, s_aaa, s_both} :
                     Spells(argv, m) => test_type = ModeName(m)
          ELSE /\ pc = "exited"
               /\ exit = SysExit(1)
               /\ \E i \in 1..Len(console) : console[i].kind = "usage"
               /\ NothingStarted
    /\ pc = "start" => NothingStarted
    /\ InLoop => test_type \in TestTypes

\* A token that is no mode was refused.
C21_Witness ==
    /\ argv = <<"a", "a", "_">>
    /\ pc = "exited"
    /\ exit = SysExit(1)

\* A mode given in upper case runs the loop.
C21_WitnessAccepted == argv = <<"A", "A">> /\ pc = "emit" /\ test_type = "aa"

---------------------------------------------------------------------------
(* Claims about what the monitor keeps from cycle to cycle *)

\* The misdetection count main holds when a cycle is over: the length of
\* analysis['misdetections'] of that cycle (0 when the fetch failed).  It is
\* the only misdetection count main has; reading_num and last_analysis are
\* all that a cycle hands to the next.
SessionMisdetections == Len(analysis.misdetections)

\* C22: across the cycles of a run the monitor maintains a running
\* misdetection count that after cycle k equals the sum of the misdetection
\* counts of cycles 1..k, and so never decreases.
C22_RunningMisdetectionCount ==
    pc = "sleep" => SessionMisdetections = misdetections_seen

---------------------------------------------------------------------------
(* Claims about the ranges the calibrators emit *)

\* The <<min, max>> pairs of the outcome of the script that ran.
RangesEmitted ==
    LET o == result.outcome
        recommended == {<<o.aa_min, o.aa_max>>, <<o.aaa_min, o.aaa_max>>}
    IN CASE result.script = "dual" ->
              {o.aa_conservative, o.aa_balanced, o.aaa_conservative, o.aaa_balanced}
              \cup recommended
         [] result.script = "proper" ->
              ({o.aa_90, o.aa_95, o.aa_99, o.aaa_90, o.aaa_99} \ {<<>>})
              \cup recommended
         [] result.script = "detailed" ->
              {o.aggressive, o.balanced, o.conservative, o.ultra} \cup recommended
         [] OTHER -> {}

\* A script ran to its end and recommended.
Recommended == cpc = "done" /\ result.status = "ok" /\ ~RefusedToCalibrate

\* C23: every range a calibrator emits is a closed interval with
\* min <= max, for all non-empty inputs: the percentile pairs, the
\* misdetection-proxy AAA range and the clamped ranges recommended for the
\* firmware update, also when all samples of a class lie outside
\* [-100, 100] (AA) or [200, 500] (AAA).
C23_RangesWellFormed ==
    Recommended => \A r \in RangesEmitted : r[1] <= r[2]

\* The same for every range but the two clamped ones of recommend_dual_ranges.
C23_UnclampedRangesWellFormed ==
    Recommended =>
        \A r \in RangesEmitted :
            \/ r[1] <= r[2]
            \/ /\ result.script = "dual"
               /\ r \in {<<result.outcome.aa_min, result.outcome.aa_max>>,
                         <<result.outcome.aaa_min, result.outcome.aaa_max>>}

\* The number of correct AA samples whose |delta| is above v, and the number
\* of those whose delta lies outside [lo, hi].
AAAbove(v) == Cardinality({i \in 1..Len(aa_correct) : abs(aa_correct[i]) > v})

AAOutside(lo, hi) ==
    Cardinality({i \in 1..Len(aa_correct) : aa_correct[i] < lo \/ aa_correct[i] > hi})

AAAOutside(lo, hi) ==
    Cardinality({i \in 1..Len(aaa_correct) : aaa_correct[i] < lo \/ aaa_correct[i] > hi})

\* The threshold v of level num/den loses at most n - 1 - floor(num/den * n)
\* correct AA samples, which is fewer than (1 - num/den) * n.
CoversOneSided(v, num, den) ==
    LET n == Len(aa_correct)
    IN /\ AAAbove(v) <= n - 1 - ((num * n) \div den)
       /\ AAAbove(v) * den < (den - num) * n

\* The range r, labelled with a coverage of c tenths of a percent, leaves
\* fewer than (100% - c) of the correct AA samples outside.
CoversTwoSided(r, c) == AAOutside(r[1], r[2]) * 1000 < (1000 - c) * Len(aa_correct)

\* C24: each boundary covers what its label says of the samples it was
\* derived from: a one-sided threshold p95 / p99 / p99.9 is exceeded by at
\* most n - 1 - floor(c * n) correct AA samples; a two-sided range labelled
\* c% (detailed_delta_analysis, proper_dual_range_analysis) leaves strictly
\* fewer than (100 - c)% of the samples outside.
C24_StatedCoverage ==
    Recommended =>
      LET o == result.outcome
      IN CASE result.script = "delta" ->
                /\ CoversOneSided(o.recommendation.p90, 90, 100)
                /\ CoversOneSided(o.recommendation.p95, 95, 100)
                /\ CoversOneSided(o.recommendation.p99, 99, 100)
                /\ CoversOneSided(o.recommendation.p999, 999, 1000)
           [] result.script = "detailed" ->
                /\ CoversTwoSided(o.aggressive, 900)
                /\ CoversTwoSided(o.balanced, 950)
                /\ CoversTwoSided(o.conservative, 990)
                /\ CoversTwoSided(o.ultra, 999)
           [] result.script = "proper" ->
                /\ CoversTwoSided(o.aa_90, 900)
                /\ CoversTwoSided(o.aa_95, 950)
                /\ CoversTwoSided(o.aa_99, 990)
                /\ o.aa_lost = AAOutside(o.aa_min, o.aa_max)
                /\ o.aaa_90 # <<>> =>
                     /\ AAAOutside(o.aaa_90[1], o.aaa_90[2]) * 100 < 10 * Len(aaa_correct)
                     /\ AAAOutside(o.aaa_99[1], o.aaa_99[2]) * 100 < Len(aaa_correct)
           [] OTHER -> TRUE

\* A 90% range that does lose samples: two of twenty-one.
C24_Witness ==
    /\ Recommended
    /\ result.script = "proper"
    /\ Len(aa_correct) = 21
    /\ AAOutside(result.outcome.aa_90[1], result.outcome.aa_90[2]) = 2

\* A one-sided threshold that loses a sample.
C24_WitnessThreshold ==
    /\ Recommended
    /\ result.script = "delta"
    /\ Len(aa_correct) = 21
    /\ AAAbove(result.outcome.recommendation.p90) = 2

---------------------------------------------------------------------------
(* Claims about the percentile indexes *)

\* C25: for every non-empty sample set, of any size, every percentile
\* lookup that applies no clamp (levels 0.5, 1, 2.5, 5, 90, 95, 97.5, 99,
\* 99.5, 99.9) uses an index in 0..n-1: the lookup of the 99.9% level does
\* not fail where that of the 99% level succeeds.
C25_IndexInRange ==
    (cpc = "done" /\ result.script = "lookup") =>
        /\ result.status = "ok"
        /\ result.outcome.idx \in 0..(Len(aa_correct) - 1)
        /\ \E i \in 1..Len(aa_correct) : result.outcome.value = aa_correct[i]

\* The 99.9% level on one sample and on a thousand: the last index.
C25_Witness ==
    /\ cpc = "done" /\ result.script = "lookup" /\ result.status = "ok"
    /\ result.outcome.level = 9990
    /\ Len(aa_correct) = 1000
    /\ result.outcome.idx = 999

---------------------------------------------------------------------------
(* Claims about the count-change line and the reading counter *)

\* The change lines among the lines l.
ChangeLines(l) == SelectSeq(l, LAMBDA x : x.kind = "change")

\* The preceding cycle and this one both produced an analysis, and their
\* totals differ.
TotalsDiffer ==
    /\ last_analysis.status = "ok"
    /\ analysis.status = "ok"
    /\ analysis.total # last_analysis.total

\* What the log of the cycle that is ending holds about the slot count: one
\* line 'previous -> current' when the totals differ, none otherwise.
ChangeLineRight ==
    IF TotalsDiffer
    THEN ChangeLines(log_file) =
            <<[kind |-> "change", previous |-> last_analysis.total,
               current |-> analysis.total]>>
    ELSE ChangeLines(log_file) = <<>>

\* C26: a slot-count change line 'previous -> current' is written in cycle
\* k exactly when cycle k-1 and cycle k both produced an analysis and their
\* totals differ; the comparison is with the immediately preceding cycle
\* only, so after a failed fetch in cycle k-1 no change line is written in
\* cycle k.  Stated of the cycles that run to the bottom of the loop body.
C26_ChangeLineIffTotalsDiffer ==
    [][(pc = "emit" /\ pc' = "sleep") => ChangeLineRight]_vars

\* The same of the cycles an exception ends as well: there the body stops
\* before it reaches the comparison.
C26_AlsoInCrashedCycles ==
    [][(pc = "emit" /\ pc' \in {"sleep", "crashed"}) => ChangeLineRight]_vars

\* A cycle whose lines are all written and that wrote a change line.
C26_Witness ==
    /\ pc = "emit"
    /\ Len(log_file) = Len(out.lines)
    /\ ~out.raises
    /\ TotalsDiffer
    /\ ChangeLines(log_file) # <<>>

\* A cycle after a failed fetch: slots are occupied, no change line.
C26_WitnessAfterFailure ==
    /\ pc = "emit"
    /\ Len(log_file) = Len(out.lines)
    /\ ~out.raises
    /\ reading_num > 1
    /\ last_analysis.status = "none"
    /\ analysis.status = "ok" /\ analysis.total > 0
    /\ ChangeLines(log_file) = <<>>

\* The summary lines among the lines l.
SummaryLines(l) == SelectSeq(l, LAMBDA x : x.kind = "summary")

\* C27: the reading counter starts at 1 and grows by exactly 1 per completed
\* cycle, whether the fetch succeeded or failed; it never decreases, repeats
\* or skips, so the k-th summary line written in a run carries reading
\* number k.
C27_ReadingCounter ==
    /\ [](summaries = 0 => reading_num = 1)
    /\ [][IF pc = "emit" /\ pc' = "sleep"
          THEN reading_num' = reading_num + 1
          ELSE reading_num' = reading_num]_vars
    /\ [][summaries' # summaries =>
            /\ summaries' = summaries + 1
            /\ log_file' = Append(log_file, console[Len(log_file) + 1])
            /\ console[Len(log_file) + 1].kind = "summary"
            /\ console[Len(log_file) + 1].reading_num = summaries']_vars
    /\ []((pc \in {"emit", "sleep"} /\ log_file # <<>>) =>
            /\ Len(SummaryLines(log_file)) = 1
            /\ log_file[1].kind = "summary"
            /\ log_file[1].reading_num = summaries)

\* The third summary line, written after a cycle whose fetch failed.
C27_Witness ==
    /\ pc = "emit"
    /\ summaries = 3
    /\ log_file # <<>>
    /\ log_file[1].reading_num = 3
    /\ last_analysis.status = "none"

---------------------------------------------------------------------------
(* Claims about the distribution tables *)

\* The samples the table that ran was computed from.
Tabulated == IF result.outcome.of = "aaa" THEN aaa_correct ELSE aa_correct

\* The buckets (by index) of the table that hold sample i: low <= d < high.
BucketsOf(i) ==
    {k \in 1..Len(result.outcome.ranges) :
        /\ result.outcome.ranges[k][1] <= Tabulated[i]
        /\ Tabulated[i] < result.outcome.ranges[k][2]}

\* The sum of the counts of the table.
RECURSIVE CountSum(_)
CountSum(b) == IF b = <<>> THEN 0 ELSE b[1].count + CountSum(Tail(b))

\* p is count / n * 100 to the nearest tenth of a percent.
IsPercentage(p, count, n) ==
    /\ 2 * (p * n - count * 1000) <= n
    /\ 2 * (count * 1000 - p * n) <= n

\* C28: histogram buckets are half-open [low, high): each sample is counted
\* in at most one bucket, the counts sum to at most n, and to n exactly when
\* every sample lies within the union of the ranges; each bucket's
\* percentage is count / n * 100; the three counts of the |delta| split of
\* analyze_delta_patterns sum to exactly n.
C28_HistogramCounts ==
    /\ (cpc = "done" /\ result.script = "histogram") =>
         LET b == result.outcome.buckets
             n == Len(Tabulated)
         IN /\ \A i \in 1..n : Cardinality(BucketsOf(i)) <= 1
            /\ \A k \in 1..Len(b) :
                  /\ b[k].count = Cardinality({i \in 1..n : k \in BucketsOf(i)})
                  /\ IsPercentage(b[k].percentage, b[k].count, n)
            /\ CountSum(b) <= n
            /\ (CountSum(b) = n) <=> (\A i \in 1..n : BucketsOf(i) # {})
    /\ (cpc = "done" /\ result.script = "split") =>
         LET b == result.outcome.buckets
         IN /\ CountSum(b) = Len(aa_correct)
            /\ \A k \in 1..3 : IsPercentage(b[k].percentage, b[k].count, Len(aa_correct))

\* A sample on the common end of two buckets and one beyond the last range:
\* the counts sum to less than n.
C28_Witness ==
    /\ cpc = "done" /\ result.script = "histogram"
    /\ result.outcome.ranges = proper_aa_ranges
    /\ aa_correct = <<5, 100>>
    /\ CountSum(result.outcome.buckets) = 1
    /\ result.outcome.buckets[5].count = 1


---------------------------------------------------------------------------
(* C29: what the monitor writes, the extractors read back *)

WrittenAndExtracted == cpc = "done" /\ result.script = "roundtrip"

\* A voltage line of a slot detected as KLVR-AA or KLVR-AAA.
IsMeasurementLine(l) ==
    l.kind = "voltage" /\ l.detected_type \in {KLVR_AA, KLVR_AAA}

\* One sample for each such line, in the order of the lines.
RECURSIVE SamplesWritten(_)
SamplesWritten(ls) ==
    IF ls = <<>> THEN <<>>
    ELSE (IF IsMeasurementLine(Head(ls))
          THEN <<[detected_type |-> Head(ls).detected_type,
                  delta |-> Head(ls).voltageDelta_mv]>>
          ELSE <<>>) \o SamplesWritten(Tail(ls))

\* Both voltages of the line are printed without padding and without sign.
UnpaddedVoltages(l) == l.voltageAAA_mv >= 1000 /\ l.voltageAA_mv >= 1000

\* C29: every voltage line written in 'aa' or 'aaa' mode for a slot
\* detected as KLVR-AA or KLVR-AAA yields exactly one sample, with the
\* slot's voltageDelta_mv, whatever the two voltages and the delta are, and
\* no other line yields a sample.
C29_RoundTrip ==
    WrittenAndExtracted =>
        result.outcome.samples = SamplesWritten(result.outcome.lines)

\* The same for the cycles all of whose voltages have four digits or more.
C29_RoundTripUnpadded ==
    (/\ WrittenAndExtracted
     /\ \A k \in 1..Len(result.outcome.lines) :
            result.outcome.lines[k].kind = "voltage"
                => UnpaddedVoltages(result.outcome.lines[k]))
        => result.outcome.samples = SamplesWritten(result.outcome.lines)

\* The lines that are not measurement lines yield no sample.
C29_OtherLinesYieldNothing ==
    WrittenAndExtracted =>
        re_finditer(content_of(SelectSeq(result.outcome.lines,
                                         LAMBDA l : ~IsMeasurementLine(l))), 1) = <<>>

\* A measurement line with a padded voltage was written and read back.
C29_WitnessPadded ==
    /\ WrittenAndExtracted
    /\ \E k \in 1..Len(result.outcome.lines) :
          /\ IsMeasurementLine(result.outcome.lines[k])
          /\ ~UnpaddedVoltages(result.outcome.lines[k])

\* Two measurement lines, an alert, a DETAILS line and a count change were
\* written and two samples read back.
C29_WitnessWholeCycle ==
    /\ WrittenAndExtracted
    /\ Len(result.outcome.samples) = 2
    /\ \E k \in 1..Len(result.outcome.lines) : result.outcome.lines[k].kind = "details"
    /\ \E k \in 1..Len(result.outcome.lines) : result.outcome.lines[k].kind = "change"
    /\ \E k \in 1..Len(result.outcome.samples) : result.outcome.samples[k].delta < 0


---------------------------------------------------------------------------
(* C30: the two separation verdicts of delta_analysis *)

\* delta_analysis.main ran on non-empty correct-AA and misdetection sets.
DeltaRun ==
    /\ cpc = "done" /\ result.script = "delta" /\ result.status = "ok"
    /\ aa_correct # <<>> /\ aa_misdetected # <<>>

CleanSeparationFound == result.outcome.patterns.separation = "clean"
ClearThresholdFound == result.outcome.recommendation.separation = "clear"

VerdictsAgree ==
    /\ CleanSeparationFound <=> ClearThresholdFound
    /\ (CleanSeparationFound /\ ClearThresholdFound)
          => result.outcome.patterns.threshold = result.outcome.recommendation.optimal

\* C30: in one run of delta_analysis.main 'CLEAN SEPARATION FOUND' is
\* printed if and only if 'CLEAR THRESHOLD FOUND' is, and when both are
\* printed they report the same threshold.
C30_VerdictsAgree == DeltaRun => VerdictsAgree

\* The same for fewer than 100 correct AA samples, where the 99th
\* percentile is the largest |delta|.
C30_VerdictsAgreeBelow100 == (DeltaRun /\ Len(aa_correct) < 100) => VerdictsAgree

\* A clean separation always comes with a clear threshold.
C30_CleanImpliesClear == (DeltaRun /\ CleanSeparationFound) => ClearThresholdFound

\* Both verdicts were printed for a set of fewer than 100 samples.
C30_WitnessBoth ==
    DeltaRun /\ Len(aa_correct) < 100 /\ CleanSeparationFound /\ ClearThresholdFound

\* Both were printed for 101 samples, with different thresholds.
C30_WitnessTwoThresholds ==
    /\ DeltaRun /\ CleanSeparationFound /\ ClearThresholdFound
    /\ result.outcome.patterns.threshold # result.outcome.recommendation.optimal

===========================================================================
